---- MODULE Spec2Model ----
(***************************************************************************)
(* Model of the Coder analytics pipeline of aieng-platform:                *)
(*   coder/analytics/collect.py   - the collector's usage accumulator      *)
(*   coder/analytics/aggregate.py - the aggregator's registry and metrics  *)
(*                                                                         *)
(* Hours are integers (the code uses floats; only +, -, max, sum and       *)
(* comparisons are applied to them in the modelled code).  Timestamps of   *)
(* collector runs are the run counter `clock` (the code's isoformat `now`).*)
(* Python dicts are TLA+ functions, Python lists of unique ids are         *)
(* sequences where the code depends on order and sets where it does not.   *)
(***************************************************************************)
EXTENDS Integers, Sequences, FiniteSets, TLC

VARIABLES
    \* ---- collector (collect.py) ----
    accumulated_usage,          \* key -> usage record, carried run to run
    workspace_usage_snapshot,   \* ws id -> raw counters of the last run
    current_workspaces,         \* the workspace list of the last run
    participant_mappings,       \* the participant directory of the last run
    clock,                      \* number of collector runs so far (`now`)
    max_hours_seen,             \* history: ws id -> largest total_usage_hours
                                \* any run has observed for it
    steady_workspaces           \* history: the ws ids every run so far has
                                \* listed, with hours that never went down

accVars == <<accumulated_usage, workspace_usage_snapshot, current_workspaces,
             participant_mappings, clock, max_hours_seen, steady_workspaces>>

VARIABLES
    \* ---- aggregator: registry replay (aggregate.py) ----
    snapshots,                  \* the snapshots replayed so far, in replay order
    registry                    \* build_workspace_registry(snapshots)

regVars == <<snapshots, registry>>

VARIABLES
    \* ---- aggregator: activity classifier (aggregate.py) ----
    act_now,                    \* `now` of the last classification
    act_last_used_at,           \* the timestamp classified
    act_days,                   \* days_since(act_last_used_at, act_now)
    act_status                  \* activity_status(act_last_used_at, act_now)

actVars == <<act_now, act_last_used_at, act_days, act_status>>

VARIABLES
    \* ---- aggregator: one run of aggregate.main ----
    agg_pc,                     \* position in main: start, downloaded, loaded,
                                \* enriched, teams, platform, templates, daily,
                                \* workspaces, then done, failed or aborted
    agg_registry,               \* registry.values(), in insertion order
    agg_accumulated,            \* accumulated_usage.values() of the latest snapshot
    agg_daily,                  \* accumulated_daily_engagement: date -> record
    agg_now,                    \* `now` of the run
    team_metrics,               \* the list compute_team_metrics returned
    platform_metrics,           \* the dict compute_platform_metrics returned
    template_metrics,           \* the list compute_template_metrics returned
    daily_engagement,           \* the list compute_daily_engagement returned
    workspace_metrics,          \* the list compute_workspace_metrics returned
    agg_found,                  \* number of snapshot blobs listed
    agg_downloaded,             \* number of them downloaded and parsed
    aggregate_file,             \* analytics_aggregate.json: <<>> or <<content>>
    exit_code                   \* exit status of the run, Absent while running

metricVars == <<team_metrics, platform_metrics, template_metrics,
                daily_engagement, workspace_metrics>>

teamVars == <<agg_pc, agg_registry, agg_accumulated, agg_daily, agg_now,
              metricVars, agg_found, agg_downloaded, aggregate_file, exit_code>>

VARIABLES
    \* ---- collector: daily engagement ledger (collect.py) ----
    accumulated_daily_engagement,   \* date -> [unique_users, active_workspaces]
    engagement_workspaces,          \* the workspace list of the last run
    engagement_runs                 \* number of runs so far

dailyVars == <<accumulated_daily_engagement, engagement_workspaces,
               engagement_runs>>

VARIABLES
    \* ---- collector: the snapshot bucket (collect.py, upload_to_gcs) ----
    snapshot_blobs,             \* snapshots/<timestamp>.json: timestamp -> content
    latest_json,                \* latest.json: <<>> or <<content>>
    upload_pc,                  \* idle, or between the two uploads
    upload_clock,               \* timestamp of the last snapshot created
    upload_outcome              \* how the last call ended

bucketVars == <<snapshot_blobs, latest_json, upload_pc, upload_clock,
                upload_outcome>>

VARIABLES
    \* ---- admin: delete_workspace_cli (delete_workspaces.py) ----
    delete_pc,                  \* idle, invoking, returned
    delete_args,                \* the arguments of the outermost call
    delete_frame,               \* orphan and auto_orphan_on_failure of the
                                \* call that is running
    delete_invocations,         \* the coder delete commands run, in order
    delete_result               \* the value returned: "True", "False", "none"

deleteVars == <<delete_pc, delete_args, delete_frame, delete_invocations,
                delete_result>>

VARIABLES
    \* ---- admin: validate_gemini_api_key (create_gemini_keys.py) ----
    validate_pc,                \* idle, looping, returned
    validate_attempt,           \* the loop variable `attempt`
    validate_requests,          \* what each requests.get of the call gave
    validate_sleeps,            \* the delays slept during the call
    validate_result,            \* the tuple returned
    validate_log                \* the results of the calls made so far

validateVars == <<validate_pc, validate_attempt, validate_requests,
                  validate_sleeps, validate_result, validate_log>>

VARIABLES
    \* ---- aggregator: download_all_snapshots (aggregate.py) ----
    download_pc,                \* start, listed, downloading, returned, loaded, aborted
    bucket_blobs,               \* the snapshots/*.json blobs of the bucket
    blob_names,                 \* the list list_snapshot_names returned
    futures,                    \* names whose download has not completed
    completed,                  \* names in the order as_completed yields them
    results,                    \* name -> parsed snapshot, or FailedDownload
    ordered,                    \* the list download_all_snapshots returns
    latest_snapshot          \* main's `latest`

downloadVars == <<download_pc, bucket_blobs, blob_names, futures, completed,
                  results, ordered, latest_snapshot>>

VARIABLES
    \* ---- collector: snapshot timestamps and blob names (collect.py) ----
    created_snapshots           \* per collector run: the instant of
                                \* datetime.now, the snapshot's timestamp
                                \* field and the name of its blob

nameVars == <<created_snapshots>>

VARIABLES
    \* ---- collector: the objects calculate_accumulated_usage works on ----
    heap,                       \* the objects, by address (index)
    frame_args,                 \* addresses of the arguments of the call
    heap_at_call,               \* the heap when the call was made
    frame_returned,             \* addresses of the two returned dicts
    frame_history,              \* what the previous run saved (parsed JSON)
    frame_pc,                   \* idle, loaded, returned
    frame_runs

frameVars == <<heap, frame_args, heap_at_call, frame_returned, frame_history,
               frame_pc, frame_runs>>

VARIABLES
    \* ---- admin: create_api_key, retrieve_existing_key (generate_gemini_keys.py) ----
    fetch_pc,                   \* idle, fetching, returned
    fetch_caller,               \* the function that runs the retry loop
    fetch_attempt,              \* the loop variable `attempt`
    fetch_attempts,             \* what each get-key-string run gave
    fetch_waits,                \* the delays slept
    fetch_result,               \* the tuple returned
    fetch_log                   \* the tuples returned for the teams so far

fetchVars == <<fetch_pc, fetch_caller, fetch_attempt, fetch_attempts,
               fetch_waits, fetch_result, fetch_log>>

vars == <<accVars, regVars, actVars, teamVars, dailyVars, bucketVars,
          deleteVars, validateVars,
          downloadVars,
          nameVars,
          frameVars,
          fetchVars>>

(***************************************************************************)
(* Bounds and input domains of the collector                               *)
(***************************************************************************)
MaxRuns == 3

\* Workspaces the Coder API can list, in API order; owner and template of a
\* workspace never change.  w1 and w2 share a key (owner differs only in
\* case), w3 is the same owner on another template.
WsOrder == <<"w1", "w2", "w3">>
WsIds == {WsOrder[i] : i \in 1..Len(WsOrder)}
WsOwner(w) == IF w = "w2" THEN "U1" ELSE "u1"
WsTemplate(w) == IF w = "w3" THEN "js" ELSE "py"
Absent == -1
Hours == {0, 1}
UNASSIGNED == "Unassigned"
Teams == {"team-a", "team-b"}
EmptyMap == [x \in {} |-> 0]

\* str.lower() on the owner names of the model
Lower(s) == IF s = "U1" THEN "u1" ELSE s

\* dict.get(k, default)
Get(d, k, default) == IF k \in DOMAIN d THEN d[k] ELSE default

Max(a, b) == IF a >= b THEN a ELSE b

RECURSIVE SumSeq(_)
SumSeq(s) == IF s = <<>> THEN 0 ELSE Head(s) + SumSeq(Tail(s))

RECURSIVE SeqToSet(_)
SeqToSet(s) == IF s = <<>> THEN {} ELSE {Head(s)} \cup SeqToSet(Tail(s))

(***************************************************************************)
(* collect.py: calculate_accumulated_usage and its helpers                 *)
(***************************************************************************)

\* _build_user_active_hours: owner (lowercased) -> max active_hours
RECURSIVE _build_user_active_hours(_)
_build_user_active_hours(workspaces) ==
    IF workspaces = <<>> THEN EmptyMap
    ELSE LET rest == _build_user_active_hours(
                         SubSeq(workspaces, 1, Len(workspaces) - 1))
             ws == workspaces[Len(workspaces)]
             owner == Lower(ws.owner_name)
             val == Max(Get(rest, owner, 0), ws.active_hours)
         IN [o \in DOMAIN rest \cup {owner} |->
                IF o = owner THEN val ELSE rest[o]]

\* key = f"{owner_name}_{template_name}"
KeyOf(owner_name, template_name) == owner_name \o "_" \o template_name

\* the guard of the first loop: workspaces lacking id, owner or template are skipped
Tracked(workspaces) ==
    SelectSeq(workspaces, LAMBDA ws :
        ws.id # "" /\ Lower(ws.owner_name) # "" /\ ws.template_name # "")

WsKey(ws) == KeyOf(Lower(ws.owner_name), ws.template_name)

\* workspace_usage_snapshot built by the first loop
NewWorkspaceSnapshot(workspaces) ==
    LET uah == _build_user_active_hours(workspaces)
        tr == Tracked(workspaces)
        ids == {tr[i].id : i \in 1..Len(tr)}
        LastOf(id) == CHOOSE i \in 1..Len(tr) :
                         /\ tr[i].id = id
                         /\ \A j \in 1..Len(tr) : tr[j].id = id => j <= i
    IN [id \in ids |->
          LET ws == tr[LastOf(id)] IN
          [active_hours |-> Get(uah, Lower(ws.owner_name), 0),
           workspace_hours |-> ws.total_usage_hours,
           owner_name |-> Lower(ws.owner_name),
           template_name |-> ws.template_name]]

\* user_template_workspaces built by the first loop: key -> group
user_template_workspaces(workspaces) ==
    LET uah == _build_user_active_hours(workspaces)
        tr == Tracked(workspaces)
        keys == {WsKey(tr[i]) : i \in 1..Len(tr)}
        snap == NewWorkspaceSnapshot(workspaces)
    IN [key \in keys |->
          LET mem == SelectSeq(tr, LAMBDA ws : WsKey(ws) = key)
              first == mem[1]
              ids == [i \in 1..Len(mem) |-> mem[i].id]
          IN [owner_name |-> Lower(first.owner_name),
              template_name |-> first.template_name,
              current_active |-> Get(uah, Lower(first.owner_name), 0),
              workspace_ids |-> ids,
              workspace_hours_map |->
                  [id \in SeqToSet(ids) |-> snap[id].workspace_hours]]]

\* previous_active = next((hist[ws].active_hours for ws in ids if ws in hist), 0.0)
previous_active(workspace_ids, historical_workspace_snapshots) ==
    LET known == SelectSeq(workspace_ids,
                     LAMBDA id : id \in DOMAIN historical_workspace_snapshots)
    IN IF known = <<>> THEN 0
       ELSE historical_workspace_snapshots[known[1]].active_hours

\* variant: the raw per-owner value is added, the previous one is not subtracted
active_delta_Raw(data, historical_workspace_snapshots) ==
    Max(0, data.current_active)

active_delta(data, historical_workspace_snapshots) ==
    Max(0, data.current_active
           - previous_active(data.workspace_ids, historical_workspace_snapshots))

\* variant: the per-workspace delta without the clamp at 0
WsHoursDelta_Unclamped(current_hours, previous_hours) == current_hours - previous_hours

\* variant: the previous counter is not subtracted
WsHoursDelta_Repeating(current_hours, previous_hours) == Max(0, current_hours)

\* max(0.0, current - previous) of one workspace
WsHoursDelta(current_hours, previous_hours) == Max(0, current_hours - previous_hours)

workspace_hours_delta(data, historical_workspace_snapshots) ==
    SumSeq([i \in 1..Len(data.workspace_ids) |->
        LET id == data.workspace_ids[i] IN
        WsHoursDelta(
            Get(data.workspace_hours_map, id, 0),
            IF id \in DOMAIN historical_workspace_snapshots
            THEN historical_workspace_snapshots[id].workspace_hours ELSE 0)])

\* variant: the stored team of the key is not consulted
_get_team_name_NoHistory(owner_name, key, pm, acc) ==
    LET team_name == Get(pm, owner_name, "")
    IN IF team_name = "" THEN UNASSIGNED ELSE team_name

\* _get_team_name; a missing or empty team is the empty string
_get_team_name(owner_name, key, pm, acc) ==
    LET team_name == Get(pm, owner_name, "")
        t2 == IF team_name = "" /\ key \in DOMAIN acc
              THEN acc[key].team_name ELSE team_name
    IN IF t2 = "" THEN UNASSIGNED ELSE t2

\* _update_existing_accumulated_record
_update_existing_accumulated_record(record, a_delta, w_delta, team_name, workspace_ids, now) ==
    [record EXCEPT
        !.total_active_hours = @ + a_delta,
        !.total_workspace_hours = @ + w_delta,
        !.last_updated = now,
        !.team_name = team_name,
        !.workspace_ids = @ \cup SeqToSet(workspace_ids)]

\* the record created for a key that is not in the history (the else branch)
NewAccumulatedRecord(data, team_name, now) ==
    [owner_name |-> data.owner_name,
     template_name |-> data.template_name,
     team_name |-> team_name,
     total_active_hours |-> data.current_active,
     total_workspace_hours |->
         SumSeq([i \in 1..Len(data.workspace_ids) |->
                    data.workspace_hours_map[data.workspace_ids[i]]]),
     workspace_ids |-> SeqToSet(data.workspace_ids),
     last_updated |-> now,
     first_seen |-> now]

\* variant: only the keys of the current workspace list are returned
calculate_accumulated_usage_CurrentOnly(workspaces, historical_accumulated, historical_workspace_snapshots, pm, now) ==
    LET utw == user_template_workspaces(workspaces)
    IN [accumulated_usage |->
           [key \in DOMAIN utw |->
               NewAccumulatedRecord(utw[key],
                   _get_team_name(utw[key].owner_name, key, pm,
                                  historical_accumulated), now)],
        workspace_usage_snapshot |-> NewWorkspaceSnapshot(workspaces)]

\* calculate_accumulated_usage: (accumulated_usage, workspace_usage_snapshot)
calculate_accumulated_usage(workspaces, historical_accumulated, historical_workspace_snapshots, pm, now) ==
    LET utw == user_template_workspaces(workspaces)
        Rec(key) ==
            LET data == utw[key]
                team_name == _get_team_name(data.owner_name, key, pm,
                                            historical_accumulated)
            IN IF key \in DOMAIN historical_accumulated
               THEN _update_existing_accumulated_record(
                        historical_accumulated[key],
                        active_delta(data, historical_workspace_snapshots),
                        workspace_hours_delta(data, historical_workspace_snapshots),
                        team_name, data.workspace_ids, now)
               ELSE NewAccumulatedRecord(data, team_name, now)
    IN [accumulated_usage |->
           [key \in DOMAIN historical_accumulated \cup DOMAIN utw |->
               IF key \in DOMAIN utw THEN Rec(key)
               ELSE historical_accumulated[key]],
        workspace_usage_snapshot |-> NewWorkspaceSnapshot(workspaces)]

(***************************************************************************)
(* The collector as a state machine: each run feeds the previous run's     *)
(* accumulated_usage and workspace_usage_snapshot back in (collect.main).  *)
(***************************************************************************)

\* A workspace list as the Coder API and the insights API produce it:
\* hrs[w] is w's total_usage_hours (Absent: not listed), act the owner's
\* per-user active hours, put on each of the owner's workspaces.
WorkspaceList(hrs, act) ==
    LET listed == SelectSeq(WsOrder, LAMBDA w : hrs[w] # Absent)
    IN [i \in 1..Len(listed) |->
          [id |-> listed[i],
           owner_name |-> WsOwner(listed[i]),
           template_name |-> WsTemplate(listed[i]),
           active_hours |-> act,
           total_usage_hours |-> hrs[listed[i]]]]

\* what the participant directory can hold for the one owner of the model
ParticipantMappings == {EmptyMap} \cup {[o \in {"u1"} |-> t] : t \in Teams \cup {""}}

\* the workspace lists of the hours chain: w1's counter moves freely (also
\* backwards), as does w2's; w3 comes and goes
HoursInputs ==
    {hrs \in [WsIds -> Hours \cup {Absent}] :
        hrs["w3"] \in {Absent, 1}}

\* the workspace lists of the team-name chain: w1 and w3 come and go
TeamInputs ==
    {hrs \in [WsIds -> {Absent, 1}] : hrs["w2"] = Absent}

AccInit ==
    /\ accumulated_usage = EmptyMap
    /\ workspace_usage_snapshot = EmptyMap
    /\ current_workspaces = <<>>
    /\ participant_mappings = EmptyMap
    /\ clock = 0
    /\ max_hours_seen = EmptyMap
    /\ steady_workspaces = {}

RegInit ==
    /\ snapshots = <<>>
    /\ registry = EmptyMap

\* one collector run (collect.main, the accumulator part) on inputs drawn
\* from the given sets
CollectRunWith(hrsSet, actSet, pmSet) ==
    /\ clock < MaxRuns
    /\ \E hrs \in hrsSet, act \in actSet, pm \in pmSet :
        LET ws == WorkspaceList(hrs, act)
            out == calculate_accumulated_usage(
                       ws, accumulated_usage, workspace_usage_snapshot,
                       pm, clock + 1)
        IN /\ accumulated_usage' = out.accumulated_usage
           /\ workspace_usage_snapshot' = out.workspace_usage_snapshot
           /\ current_workspaces' = ws
           /\ participant_mappings' = pm
           /\ clock' = clock + 1
           /\ max_hours_seen' =
                  [w \in DOMAIN max_hours_seen \cup {ws[i].id : i \in 1..Len(ws)} |->
                      Max(Get(max_hours_seen, w, 0),
                          IF hrs[w] = Absent THEN 0 ELSE hrs[w])]
           /\ steady_workspaces' =
                  {w \in WsIds :
                      /\ hrs[w] # Absent
                      /\ clock > 0 =>
                            /\ w \in steady_workspaces
                            /\ \E i \in 1..Len(current_workspaces) :
                                  /\ current_workspaces[i].id = w
                                  /\ current_workspaces[i].total_usage_hours <= hrs[w]}
    /\ UNCHANGED <<regVars, actVars, teamVars, dailyVars, bucketVars, deleteVars, validateVars,
                   downloadVars,
                   nameVars,
                   frameVars,
                   fetchVars>>

\* the hours chain: the directory is fixed, the counters vary
CollectRun == CollectRunWith(HoursInputs, Hours, {[o \in {"u1"} |-> "team-a"]})

\* the team-name chain: the counters are fixed, the directory varies
CollectRunTeams == CollectRunWith(TeamInputs, {1}, ParticipantMappings)

ActInit ==
    /\ act_now = 0
    /\ act_last_used_at = 0
    /\ act_days = 0
    /\ act_status = "none"

TeamInit ==
    /\ agg_pc = "start"
    /\ agg_registry = <<>>
    /\ agg_accumulated = <<>>
    /\ agg_daily = EmptyMap
    /\ agg_now = 0
    /\ team_metrics = <<>>
    /\ platform_metrics = EmptyMap
    /\ template_metrics = <<>>
    /\ daily_engagement = <<>>
    /\ workspace_metrics = <<>>
    /\ agg_found = 0
    /\ agg_downloaded = 0
    /\ aggregate_file = <<>>
    /\ exit_code = Absent

DailyInit ==
    /\ accumulated_daily_engagement = EmptyMap
    /\ engagement_workspaces = <<>>
    /\ engagement_runs = 0

BucketInit ==
    /\ snapshot_blobs = EmptyMap
    /\ latest_json = <<>>
    /\ upload_pc = "idle"
    /\ upload_clock = 0
    /\ upload_outcome = "none"

DeleteInit ==
    /\ delete_pc = "idle"
    /\ delete_args = [orphan |-> FALSE, auto_orphan_on_failure |-> FALSE,
                      dry_run |-> FALSE]
    /\ delete_frame = [orphan |-> FALSE, auto_orphan_on_failure |-> FALSE]
    /\ delete_invocations = <<>>
    /\ delete_result = "none"

NoResult == [is_valid |-> FALSE, status |-> ""]

ValidateInit ==
    /\ validate_pc = "idle"
    /\ validate_attempt = 0
    /\ validate_requests = <<>>
    /\ validate_sleeps = <<>>
    /\ validate_result = NoResult
    /\ validate_log = <<>>

\* the None download_snapshot returns on failure
FailedDownload == [failed |-> TRUE]

DownloadInit ==
    /\ download_pc = "start"
    /\ bucket_blobs = {}
    /\ blob_names = <<>>
    /\ futures = {}
    /\ completed = <<>>
    /\ results = EmptyMap
    /\ ordered = <<>>
    /\ latest_snapshot = FailedDownload

NameInit == created_snapshots = <<>>

NoAddress == 0

FrameInit ==
    /\ heap = <<>>
    /\ frame_args = [current_workspaces |-> NoAddress,
                     historical_accumulated |-> NoAddress,
                     historical_workspace_snapshots |-> NoAddress]
    /\ heap_at_call = <<>>
    /\ frame_returned = [accumulated_usage |-> NoAddress,
                         workspace_usage_snapshot |-> NoAddress]
    /\ frame_history = [accumulated_usage |-> EmptyMap,
                        workspace_usage_snapshot |-> EmptyMap]
    /\ frame_pc = "idle"
    /\ frame_runs = 0

NoKeyResult == [success |-> FALSE, api_key |-> "", error_message |-> ""]

FetchInit ==
    /\ fetch_pc = "idle"
    /\ fetch_caller = ""
    /\ fetch_attempt = 0
    /\ fetch_attempts = <<>>
    /\ fetch_waits = <<>>
    /\ fetch_result = NoKeyResult
    /\ fetch_log = <<>>

Init ==
    /\ AccInit /\ RegInit /\ ActInit /\ TeamInit /\ DailyInit /\ BucketInit
    /\ DeleteInit /\ ValidateInit /\ DownloadInit /\ NameInit /\ FrameInit /\ FetchInit
Next == CollectRun
Spec == Init /\ [][Next]_vars

NextTeamName == CollectRunTeams
SpecTeamName == Init /\ [][NextTeamName]_vars

(***************************************************************************)
(* aggregate.py: build_workspace_registry                                  *)
(*                                                                         *)
(* A snapshot is [timestamp, workspaces]; a workspace observation is a     *)
(* dict whose keys may be missing.  Timestamps and dates are integers      *)
(* ordered as the code's ISO strings are, 0 standing for the empty string  *)
(* (falsy, and below every other string).                                  *)
(***************************************************************************)
MaxSnapshots == 3
MaxTs == 2

\* variant: an existing entry never blocks the update
SkipUpdate_Never(existing_ts, ts) == FALSE

\* variant: only a strictly newer entry blocks the update
SkipUpdate_StrictlyNewer(existing_ts, ts) == existing_ts > ts

\* `existing["snapshot_timestamp"] >= ts`: an equal or newer entry is kept
SkipUpdate(existing_ts, ts) == existing_ts >= ts

\* the entry written for observation ws of a snapshot with timestamp ts,
\* given the registry so far
RegistryEntry(reg, ws, ts) ==
    LET ws_id == ws.id
        last_used == IF Get(ws, "last_used_at", 0) # 0 THEN ws.last_used_at
                     ELSE Get(ws, "created_at", 0)
        team_name == IF Get(ws, "team_name", "") # "" THEN ws.team_name
                     ELSE IF ws_id \in DOMAIN reg THEN reg[ws_id].team_name
                     ELSE UNASSIGNED
    IN [id |-> ws_id,
        owner_name |-> Get(ws, "owner_name", ""),
        team_name |-> team_name,
        template_name |-> Get(ws, "template_name", ""),
        template_display_name |-> Get(ws, "template_display_name", ""),
        template_id |-> Get(ws, "template_id", ""),
        created_at |-> Get(ws, "created_at", 0),
        last_used_at |-> last_used,
        total_usage_hours |-> Get(ws, "total_usage_hours", 0),
        active_hours |-> Get(ws, "active_hours", 0),
        owner_first_name |-> Get(ws, "owner_first_name", ""),
        owner_last_name |-> Get(ws, "owner_last_name", ""),
        snapshot_timestamp |-> ts]

\* the inner loop: the observations of one snapshot, in list order
RECURSIVE FoldWorkspaces(_, _, _)
FoldWorkspaces(reg, workspaces, ts) ==
    IF workspaces = <<>> THEN reg
    ELSE LET ws == Head(workspaces)
             ws_id == Get(ws, "id", "")
             next ==
                 IF ws_id = "" THEN reg
                 ELSE IF ws_id \in DOMAIN reg
                         /\ SkipUpdate(reg[ws_id].snapshot_timestamp, ts)
                      THEN reg
                 ELSE [w \in DOMAIN reg \cup {ws_id} |->
                          IF w = ws_id THEN RegistryEntry(reg, ws, ts) ELSE reg[w]]
         IN FoldWorkspaces(next, Tail(workspaces), ts)

\* variant: each snapshot starts from an empty registry
RegistryStep_LatestOnly(reg, snapshot) ==
    FoldWorkspaces(EmptyMap, Get(snapshot, "workspaces", <<>>),
                   Get(snapshot, "timestamp", 0))

\* the body of the outer loop: one snapshot folded into the registry
RegistryStep(reg, snapshot) ==
    FoldWorkspaces(reg, Get(snapshot, "workspaces", <<>>),
                   Get(snapshot, "timestamp", 0))

RECURSIVE build_workspace_registry(_)
build_workspace_registry(snaps) ==
    IF snaps = <<>> THEN EmptyMap
    ELSE RegistryStep(
             build_workspace_registry(SubSeq(snaps, 1, Len(snaps) - 1)),
             snaps[Len(snaps)])

\* Observations of workspace w1 found in snapshots: a full one, one from an
\* earlier collector variant without team_name and last_used_at, and one
\* after a team change.  w2 has one observation.
W1Observations ==
    { [id |-> "w1", owner_name |-> "u1", team_name |-> "team-a",
       template_name |-> "py", template_display_name |-> "Python",
       template_id |-> "t-py", created_at |-> 1, last_used_at |-> 2,
       total_usage_hours |-> 1, active_hours |-> 1],
      [id |-> "w1", owner_name |-> "u1",
       template_name |-> "py", template_display_name |-> "Python",
       template_id |-> "t-py", created_at |-> 1,
       total_usage_hours |-> 2, active_hours |-> 1],
      [id |-> "w1", owner_name |-> "u1", team_name |-> "team-b",
       template_name |-> "py", template_display_name |-> "Python 3",
       template_id |-> "t-py", created_at |-> 1, last_used_at |-> 3,
       total_usage_hours |-> 3, active_hours |-> 2] }

W2Observation ==
    [id |-> "w2", owner_name |-> "u2", team_name |-> "team-a",
     template_name |-> "js", template_display_name |-> "Node",
     template_id |-> "t-js", created_at |-> 2, last_used_at |-> 2,
     total_usage_hours |-> 1, active_hours |-> 0]

SnapshotUniverse ==
    {[timestamp |-> ts, workspaces |-> l1 \o l2] :
        ts \in 1..MaxTs,
        l1 \in {<<>>} \cup {<<o>> : o \in W1Observations},
        l2 \in {<<>>, <<W2Observation>>}}

\* the replay loop of build_workspace_registry, one snapshot per step; the
\* replay order is whatever list the caller passes
ReplaySnapshot ==
    /\ Len(snapshots) < MaxSnapshots
    /\ \E snapshot \in SnapshotUniverse :
          /\ snapshots' = Append(snapshots, snapshot)
          /\ registry' = build_workspace_registry(Append(snapshots, snapshot))
    /\ UNCHANGED <<accVars, actVars, teamVars, dailyVars, bucketVars, deleteVars, validateVars,
                   downloadVars,
                   nameVars,
                   frameVars,
                   fetchVars>>

NextRegistry == ReplaySnapshot
SpecRegistry == Init /\ [][NextRegistry]_vars

(***************************************************************************)
(* aggregate.py: days_since and activity_status                            *)
(*                                                                         *)
(* A timestamp is the number of seconds since the epoch that its ISO       *)
(* string denotes; NoTimestamp (0) is the empty string, which              *)
(* datetime.fromisoformat rejects.                                         *)
(***************************************************************************)
MaxAgeDays == 31
SecondsPerDay == 86400
ACTIVE_DAYS == 7
INACTIVE_DAYS == 30
UnparsableDays == 9999
NoTimestamp == 0
MaxFutureDays == 2

\* a non-empty string that is not an ISO timestamp
NotIso == -1

\* datetime.fromisoformat(timestamp.replace("Z", "+00:00")) succeeds
Parsable(timestamp) == timestamp \notin {NoTimestamp, NotIso}

\* timedelta.days: whole days, rounded towards minus infinity
TimedeltaDays(seconds) == seconds \div SecondsPerDay

\* variant: the difference in days is returned as it is
days_since_Signed(timestamp, now) ==
    IF Parsable(timestamp)
    THEN TimedeltaDays(now - timestamp)
    ELSE UnparsableDays

days_since(timestamp, now) ==
    IF Parsable(timestamp)
    THEN Max(0, TimedeltaDays(now - timestamp))
    ELSE UnparsableDays

\* variant: the thresholds are exclusive
activity_status_Exclusive(last_used_at, now) ==
    LET d == days_since(last_used_at, now)
    IN IF d < ACTIVE_DAYS THEN "active"
       ELSE IF d < INACTIVE_DAYS THEN "inactive"
       ELSE "stale"

activity_status(last_used_at, now) ==
    LET d == days_since(last_used_at, now)
    IN IF d <= ACTIVE_DAYS THEN "active"
       ELSE IF d <= INACTIVE_DAYS THEN "inactive"
       ELSE "stale"

\* the instants at which the aggregator runs: a midnight and a noon
NowValues == {1000 * SecondsPerDay, 1000 * SecondsPerDay + 43200}

\* ages around every whole number of days up to MaxAgeDays, one second
\* either side (an age of -1 s is a timestamp in the future)
AgeValues == {d * SecondsPerDay + e : d \in 0..MaxAgeDays, e \in {-1, 0, 1}}

\* one workspace classified (the calls of activity_status in the metric
\* calculators)
\* timestamps ahead of the aggregator's clock, by whole days and a second more
FutureAges == {-(d * SecondsPerDay) - e : d \in 1..MaxFutureDays, e \in {0, 1}}

ClassifyWorkspace ==
    /\ \E now \in NowValues :
       \E ts \in {now - a : a \in AgeValues \cup FutureAges} \cup {NoTimestamp, NotIso} :
          /\ act_now' = now
          /\ act_last_used_at' = ts
          /\ act_days' = days_since(ts, now)
          /\ act_status' = activity_status(ts, now)
    /\ UNCHANGED <<accVars, regVars, teamVars, dailyVars, bucketVars, deleteVars, validateVars,
                   downloadVars,
                   nameVars,
                   frameVars,
                   fetchVars>>

NextActivity == ClassifyWorkspace
SpecActivity == Init /\ [][NextActivity]_vars

(***************************************************************************)
(* aggregate.py: enrich_registry_from_accumulated and compute_team_metrics *)
(*                                                                         *)
(* The registry and accumulated_usage are the sequences of their values in *)
(* dict order.  Hours are integers counting tenths of an hour, so that     *)
(* round(x) and round(x * 10) / 10 are roundings of a fraction; None is    *)
(* the empty string.  Dates are day numbers, ordered as the code's         *)
(* "%Y-%m-%d" strings are.                                                 *)
(***************************************************************************)
EXCLUDED_TEAMS == {"facilitators", UNASSIGNED}

\* sorted(team names): the names of the model in string order
TeamOrder == <<"Unassigned", "facilitators", "team-a", "team-b">>

RegistryIds(reg) == {reg[i].id : i \in DOMAIN reg}

\* variant: the stub's last_used_at is always the record's first_seen
StubEntry_FirstSeen(record, ws_id) ==
    [id |-> ws_id,
     owner_name |-> Get(record, "owner_name", ""),
     team_name |-> Get(record, "team_name", UNASSIGNED),
     template_name |-> Get(record, "template_name", ""),
     template_display_name |-> Get(record, "template_name", ""),
     template_id |-> "",
     created_at |-> Get(record, "first_seen", 0),
     last_used_at |-> Get(record, "first_seen", 0),
     total_usage_hours |-> 0,
     active_hours |-> 0,
     owner_first_name |-> "",
     owner_last_name |-> "",
     snapshot_timestamp |-> 0]

\* the stub entry written for a workspace id the registry does not know
StubEntry(record, ws_id) ==
    [id |-> ws_id,
     owner_name |-> Get(record, "owner_name", ""),
     team_name |-> Get(record, "team_name", UNASSIGNED),
     template_name |-> Get(record, "template_name", ""),
     template_display_name |-> Get(record, "template_name", ""),
     template_id |-> "",
     created_at |-> Get(record, "first_seen", 0),
     last_used_at |-> Get(record, "last_updated", Get(record, "first_seen", 0)),
     total_usage_hours |-> 0,
     active_hours |-> 0,
     owner_first_name |-> "",
     owner_last_name |-> "",
     snapshot_timestamp |-> 0]

\* the inner loop over one record's workspace_ids
RECURSIVE EnrichFromRecord(_, _, _)
EnrichFromRecord(reg, record, ids) ==
    IF ids = <<>> THEN reg
    ELSE EnrichFromRecord(
             IF Head(ids) \in RegistryIds(reg) THEN reg
             ELSE Append(reg, StubEntry(record, Head(ids))),
             record, Tail(ids))

RECURSIVE enrich_registry_from_accumulated(_, _)
enrich_registry_from_accumulated(reg, accumulated) ==
    IF accumulated = <<>> THEN reg
    ELSE enrich_registry_from_accumulated(
             EnrichFromRecord(reg, Head(accumulated),
                              Get(Head(accumulated), "workspace_ids", <<>>)),
             Tail(accumulated))

\* round(num / den) for num >= 0, den > 0: halves go to the even neighbour
RoundHalfEven(num, den) ==
    LET q == num \div den
        r == num % den
    IN IF 2 * r < den THEN q
       ELSE IF 2 * r > den THEN q + 1
       ELSE IF q % 2 = 0 THEN q ELSE q + 1

\* one step of the member_map loop: the first workspace of an owner, or one
\* used strictly later than the owner's entry, takes the owner's place
MemberMapStep(member_map, ws) ==
    IF \E i \in DOMAIN member_map : member_map[i].owner_name = ws.owner_name
    THEN [i \in DOMAIN member_map |->
             IF member_map[i].owner_name = ws.owner_name
                /\ ws.last_used_at > member_map[i].last_used_at
             THEN ws ELSE member_map[i]]
    ELSE Append(member_map, ws)

RECURSIVE MemberMap(_, _)
MemberMap(member_map, workspaces) ==
    IF workspaces = <<>> THEN member_map
    ELSE MemberMap(MemberMapStep(member_map, Head(workspaces)), Tail(workspaces))

\* the roster entry of an owner, from the owner's entry in member_map
MemberOf(ws, workspaces, now) ==
    [github_handle |-> ws.owner_name,
     name |-> IF ws.owner_first_name # "" /\ ws.owner_last_name # ""
              THEN ws.owner_first_name \o " " \o ws.owner_last_name
              ELSE ws.owner_name,
     workspace_count |->
         Cardinality({i \in DOMAIN workspaces :
                         workspaces[i].owner_name = ws.owner_name}),
     last_active |-> ws.last_used_at,
     activity_status |-> activity_status(ws.last_used_at, now)]

\* members.sort(key=last_active, reverse=True): stable, latest first
RECURSIVE SortMembers(_, _)
SortMembers(sorted, members) ==
    IF members = <<>> THEN sorted
    ELSE LET m == Head(members)
             k == Cardinality({i \in DOMAIN sorted :
                                  sorted[i].last_active >= m.last_active})
         IN SortMembers(SubSeq(sorted, 1, k) \o <<m>>
                            \o SubSeq(sorted, k + 1, Len(sorted)),
                        Tail(members))

_build_members(workspaces, now) ==
    LET member_map == MemberMap(<<>>, workspaces)
        members == [i \in DOMAIN member_map |->
                       MemberOf(member_map[i], workspaces, now)]
    IN SortMembers(<<>>, members)

RecordTeam(record) == Get(record, "team_name", UNASSIGNED)

\* variant: the registry is grouped without the exclusion filter
team_ws_Unfiltered(reg, accumulated) ==
    LET teams == {reg[i].team_name : i \in DOMAIN reg}
                 \cup {t \in {RecordTeam(accumulated[i]) : i \in DOMAIN accumulated} :
                          t \notin EXCLUDED_TEAMS}
    IN [t \in teams |-> SelectSeq(reg, LAMBDA ws : ws.team_name = t)]

\* team_ws: team -> its registry entries in registry order, for the teams of
\* the registry and of accumulated_usage that are not excluded
team_ws(reg, accumulated) ==
    LET teams == {t \in {reg[i].team_name : i \in DOMAIN reg}
                        \cup {RecordTeam(accumulated[i]) : i \in DOMAIN accumulated} :
                     t \notin EXCLUDED_TEAMS}
    IN [t \in teams |-> SelectSeq(reg, LAMBDA ws : ws.team_name = t)]

\* variant: the registry's hours are added to the accumulated ones
PreferAccumulated_Both(accumulated_hours, registry_hours) == accumulated_hours + registry_hours

\* `if total_workspace_hours == 0:` the registry sum replaces an accumulated
\* total of exactly zero
PreferAccumulated(accumulated_hours, registry_hours) ==
    IF accumulated_hours = 0 THEN registry_hours ELSE accumulated_hours

\* acc_by_team[team]: the sums and the id set over the team's records
acc_by_team(accumulated, team) ==
    LET recs == SelectSeq(accumulated,
                    LAMBDA r : RecordTeam(r) \notin EXCLUDED_TEAMS
                               /\ RecordTeam(r) = team)
    IN [total_active_hours |->
            SumSeq([i \in DOMAIN recs |-> Get(recs[i], "total_active_hours", 0)]),
        total_workspace_hours |->
            SumSeq([i \in DOMAIN recs |-> Get(recs[i], "total_workspace_hours", 0)]),
        workspace_ids |->
            UNION {SeqToSet(Get(recs[i], "workspace_ids", <<>>)) : i \in DOMAIN recs}]

\* strftime("%Y-%m-%d") of now - timedelta(days=ACTIVE_DAYS)
Cutoff(now) == (now - ACTIVE_DAYS * SecondsPerDay) \div SecondsPerDay

\* the metrics record of one team (the body of the loop over team_ws)
TeamRecord(team_name, workspaces, accumulated, daily, now) ==
    LET acc == acc_by_team(accumulated, team_name)
        all_ws_ids == {workspaces[i].id : i \in DOMAIN workspaces}
                      \cup acc.workspace_ids
        members == _build_members(workspaces, now)
        active_users == {members[i].github_handle :
                            i \in {j \in DOMAIN members :
                                      members[j].activity_status = "active"}}
        team_owners_lower == {Lower(workspaces[i].owner_name) :
                                 i \in DOMAIN workspaces}
        active_dates ==
            {d \in DOMAIN daily :
                /\ d >= Cutoff(now)
                /\ team_owners_lower \cap Get(daily[d], "unique_users", {}) # {}}
        total_workspace_hours ==
            PreferAccumulated(acc.total_workspace_hours,
                SumSeq([i \in DOMAIN workspaces |->
                           Get(workspaces[i], "total_usage_hours", 0)]))
        n == Cardinality(all_ws_ids)
        displays == {workspaces[i].template_display_name : i \in DOMAIN workspaces}
    IN [team_name |-> team_name,
        total_workspaces |-> n,
        unique_active_users |-> Cardinality(active_users),
        total_workspace_hours |-> RoundHalfEven(total_workspace_hours, 10),
        total_active_hours |-> RoundHalfEven(acc.total_active_hours, 10),
        avg_workspace_hours |->
            IF n = 0 THEN 0 ELSE RoundHalfEven(total_workspace_hours, n),
        active_days |-> Cardinality(active_dates),
        template_distribution |->
            [d \in displays |->
                Cardinality({i \in DOMAIN workspaces :
                                workspaces[i].template_display_name = d})],
        members |-> members]

compute_team_metrics(reg, accumulated, daily, now) ==
    LET tw == team_ws(reg, accumulated)
        sorted == SelectSeq(TeamOrder, LAMBDA t : t \in DOMAIN tw)
    IN [i \in DOMAIN sorted |->
           TeamRecord(sorted[i], tw[sorted[i]], accumulated, daily, now)]

\* all_ws_ids of compute_platform_metrics: every registry key and every id
\* any accumulated_usage record lists
PlatformAllWsIds(reg, accumulated) ==
    RegistryIds(reg)
    \cup UNION {SeqToSet(Get(accumulated[i], "workspace_ids", <<>>)) :
                  i \in DOMAIN accumulated}

\* variant: no team is left out
non_excluded_All(reg) == reg

non_excluded(reg) == SelectSeq(reg, LAMBDA ws : ws.team_name \notin EXCLUDED_TEAMS)

\* the template_counts loop: template_name -> [count, display_name], the
\* keys in order of first occurrence, display_name from the last workspace
RECURSIVE TemplateCounts(_, _)
TemplateCounts(counts, workspaces) ==
    IF workspaces = <<>> THEN counts
    ELSE LET ws == Head(workspaces)
             t == ws.template_name
             seen == \E i \in DOMAIN counts : counts[i].name = t
             next ==
                 IF t = "" THEN counts
                 ELSE IF seen
                 THEN [i \in DOMAIN counts |->
                          IF counts[i].name = t
                          THEN [name |-> t, count |-> counts[i].count + 1,
                                display_name |-> ws.template_display_name]
                          ELSE counts[i]]
                 ELSE Append(counts, [name |-> t, count |-> 1,
                                      display_name |-> ws.template_display_name])
         IN TemplateCounts(next, Tail(workspaces))

\* max(template_counts.items(), key=count): the first entry with the largest
\* count; NoTemplate when there is none
NoTemplate == [name |-> "", display_name |-> "", count |-> 0]

\* variant: the last entry with the largest count
MostPopular_Last(counts) ==
    IF counts = <<>> THEN NoTemplate
    ELSE counts[CHOOSE i \in DOMAIN counts :
                   /\ \A j \in DOMAIN counts : counts[j].count <= counts[i].count
                   /\ \A j \in (i + 1)..Len(counts) : counts[j].count < counts[i].count]

MostPopular(counts) ==
    IF counts = <<>> THEN NoTemplate
    ELSE counts[CHOOSE i \in DOMAIN counts :
                   /\ \A j \in DOMAIN counts : counts[j].count <= counts[i].count
                   /\ \A j \in 1..(i - 1) : counts[j].count < counts[i].count]

CountStatus(workspaces, status, now) ==
    Cardinality({i \in DOMAIN workspaces :
                    activity_status(workspaces[i].last_used_at, now) = status})

\* avg_days_since_active is in tenths of a day: round(x, 1) of a quotient
\* whose denominator is at most 4 is the rounding of an exact binary fraction
compute_platform_metrics(reg, accumulated, teams, now) ==
    LET ne == non_excluded(reg)
        days == [i \in DOMAIN ne |-> days_since(ne[i].last_used_at, now)]
    IN [total_workspaces |-> Cardinality(PlatformAllWsIds(reg, accumulated)),
        total_users |-> Cardinality({ne[i].owner_name : i \in DOMAIN ne}),
        total_teams |-> Len(teams),
        active_workspaces |-> CountStatus(ne, "active", now),
        inactive_workspaces |-> CountStatus(ne, "inactive", now),
        stale_workspaces |-> CountStatus(ne, "stale", now),
        total_templates |->
            Cardinality({ne[i].template_name : i \in DOMAIN ne} \ {""}),
        most_popular_template |-> MostPopular(TemplateCounts(<<>>, ne)),
        healthy_rate |-> 0,
        avg_days_since_active |->
            IF ne = <<>> THEN 0 ELSE RoundHalfEven(10 * SumSeq(days), Len(ne))]

\* the workspaces of a template: the registry entries with that template_id
\* whose team is not excluded
by_template_id(reg, t_id) ==
    SelectSeq(reg, LAMBDA ws : /\ ws.template_id # ""
                               /\ ws.team_name \notin EXCLUDED_TEAMS
                               /\ ws.template_id = t_id)

\* the accumulated_usage records of a template whose team is not excluded
TemplateRecords(accumulated, t_name) ==
    SelectSeq(accumulated,
        LAMBDA r : /\ "template_name" \in DOMAIN r
                   /\ r.template_name = t_name
                   /\ RecordTeam(r) \notin EXCLUDED_TEAMS)

\* the metrics record of one template definition
TemplateRecord(template, reg, accumulated, now) ==
    LET workspaces == by_template_id(reg, template.id)
        recs == TemplateRecords(accumulated, template.name)
        active_ws == SelectSeq(workspaces,
                         LAMBDA ws : activity_status(ws.last_used_at, now) = "active")
        all_ws_ids ==
            {workspaces[i].id : i \in DOMAIN workspaces}
            \cup UNION {SeqToSet(Get(recs[i], "workspace_ids", <<>>)) :
                          i \in DOMAIN recs}
        acc_hours == SumSeq([i \in DOMAIN recs |->
                                Get(recs[i], "total_workspace_hours", 0)])
        total_workspace_hours ==
            PreferAccumulated(acc_hours,
                SumSeq([i \in DOMAIN workspaces |->
                           Get(workspaces[i], "total_usage_hours", 0)]))
        n == Cardinality(all_ws_ids)
        teams == {workspaces[i].team_name : i \in DOMAIN workspaces}
    IN [template_id |-> template.id,
        template_name |-> template.name,
        template_display_name |-> Get(template, "display_name", template.name),
        total_workspaces |-> n,
        active_workspaces |-> Len(active_ws),
        unique_active_users |->
            Cardinality({active_ws[i].owner_name : i \in DOMAIN active_ws}),
        total_workspace_hours |-> RoundHalfEven(total_workspace_hours, 10),
        total_active_hours |->
            RoundHalfEven(SumSeq([i \in DOMAIN recs |->
                                     Get(recs[i], "total_active_hours", 0)]), 10),
        avg_workspace_hours |->
            IF n = 0 THEN 0 ELSE RoundHalfEven(total_workspace_hours, n),
        team_distribution |->
            [t \in teams |->
                Cardinality({i \in DOMAIN workspaces : workspaces[i].team_name = t})]]

compute_template_metrics(reg, templates, accumulated, now) ==
    [i \in DOMAIN templates |-> TemplateRecord(templates[i], reg, accumulated, now)]

\* the days of the default window of compute_daily_engagement (the code
\* reads the clock again at the call; the model takes main's `now`)
EngagementDays == 90

\* result.sort(key=date): the entries in ascending date order
RECURSIVE SortByDate(_, _)
SortByDate(daily, dates) ==
    IF dates = {} THEN <<>>
    ELSE LET d == CHOOSE x \in dates : \A y \in dates : x <= y
         IN <<[date |-> d,
               unique_users |-> Cardinality(Get(daily[d], "unique_users", {})),
               active_workspaces |->
                   Cardinality(Get(daily[d], "active_workspaces", {}))]>>
            \o SortByDate(daily, dates \ {d})

compute_daily_engagement(daily, now) ==
    LET cutoff == (now - EngagementDays * SecondsPerDay) \div SecondsPerDay
    IN SortByDate(daily, {d \in DOMAIN daily : d >= cutoff})

\* one row of the workspace detail table
WorkspaceRow(ws, now) ==
    [workspace_id |-> ws.id,
     workspace_name |-> IF Get(ws, "name", "") # "" THEN ws.name
                        ELSE ws.owner_name \o "/workspace",
     owner_github_handle |-> ws.owner_name,
     owner_name |-> IF ws.owner_first_name # "" /\ ws.owner_last_name # ""
                    THEN ws.owner_first_name \o " " \o ws.owner_last_name
                    ELSE ws.owner_name,
     team_name |-> ws.team_name,
     template_id |-> ws.template_id,
     template_name |-> ws.template_name,
     template_display_name |-> ws.template_display_name,
     current_status |-> "unknown",
     health_status |-> "unknown",
     created_at |-> ws.created_at,
     last_active |-> ws.last_used_at,
     last_build_at |-> ws.created_at,
     days_since_created |-> days_since(ws.created_at, now),
     days_since_active |-> days_since(ws.last_used_at, now),
     workspace_hours |-> Get(ws, "total_usage_hours", 0),
     active_hours |-> Get(ws, "active_hours", 0),
     total_builds |-> 0,
     last_build_status |-> "unknown",
     activity_status |-> activity_status(ws.last_used_at, now),
     recent_active_dates |-> <<>>]

\* the rows of the non-excluded entries, latest last_active first (stable)
compute_workspace_metrics(reg, now) ==
    LET ne == non_excluded(reg)
    IN SortMembers(<<>>, [i \in DOMAIN ne |-> WorkspaceRow(ne[i], now)])

\* ---- the inputs of a run ----
AggNow == 1000 * SecondsPerDay + 43200

\* a registry entry as build_workspace_registry leaves it
RegistryWs(id, team, last_used, first, last) ==
    [id |-> id, owner_name |-> WsOwner(id), team_name |-> team,
     template_name |-> WsTemplate(id), template_display_name |-> "Python",
     template_id |-> "t-py", created_at |-> AggNow - 20 * SecondsPerDay,
     last_used_at |-> last_used,
     total_usage_hours |-> IF id = "w1" THEN 25 ELSE 15, active_hours |-> 5,
     owner_first_name |-> first, owner_last_name |-> last,
     snapshot_timestamp |-> AggNow - SecondsPerDay]

\* w1 (owner u1) is unknown, or on team-a or unassigned, used three, ten
\* or forty days ago; w2 (owner U1) is unknown or on one of three teams
RegistryInputs ==
    {l1 \o l2 :
        l1 \in {<<>>} \cup
               {<<RegistryWs("w1", t, AggNow - d * SecondsPerDay, "", "")>> :
                   t \in {"team-a", UNASSIGNED}, d \in {3, 10, 40}},
        l2 \in {<<>>} \cup
               {<<RegistryWs("w2", t, AggNow - 3 * SecondsPerDay, "Ada", "Lovelace")>> :
                   t \in {"team-a", "team-b", "facilitators"}}}

\* an accumulated_usage record of the collector; one written before the
\* team was recorded has no team_name
UsageRecord(owner, template, ids, wh) ==
    [owner_name |-> owner, template_name |-> template,
     total_active_hours |-> 5, total_workspace_hours |-> wh,
     workspace_ids |-> ids,
     first_seen |-> AggNow - 20 * SecondsPerDay,
     last_updated |-> AggNow - 2 * SecondsPerDay]

WithTeam(record, team) ==
    [k \in DOMAIN record \cup {"team_name"} |->
        IF k = "team_name" THEN team ELSE record[k]]

WithoutKey(record, key) == [k \in DOMAIN record \ {key} |-> record[k]]

AccumulatedInputs ==
    {l1 \o l2 :
        l1 \in {<<>>} \cup
               {<<r>> : r \in
                   UNION {{UsageRecord("u1", "py", ids, wh),
                           WithTeam(UsageRecord("u1", "py", ids, wh), "team-a"),
                           WithTeam(UsageRecord("u1", "py", ids, wh), UNASSIGNED)} :
                             ids \in {<<"w1">>, <<"w1", "w2">>}, wh \in {0, 25}}},
        l2 \in {<<>>} \cup
               {<<WithTeam(UsageRecord("u1", "js", <<"w3">>, 5), t)>> :
                   t \in {"team-b", "facilitators"}} \cup
               {<<WithoutKey(WithTeam(UsageRecord("u1", "js", <<"w3">>, 5),
                                      "team-b"), "last_updated")>>}}

DailyInputs ==
    {EmptyMap,
     [d \in {AggNow \div SecondsPerDay - 1, AggNow \div SecondsPerDay - 8,
              AggNow \div SecondsPerDay - 100} |->
         [unique_users |-> {"u1"}, active_workspaces |-> {"w1"}]]}

\* the template definitions of the latest snapshot; the second one has no
\* display_name
LatestTemplates ==
    <<[id |-> "t-py", name |-> "py", display_name |-> "Python"],
      [id |-> "t-js", name |-> "js"]>>

\* what listing and downloading the snapshot blobs can give: <<found,
\* downloaded>>; a download that fails is dropped
DownloadOutcomes == {<<0, 0>>, <<1, 0>>, <<1, 1>>, <<2, 1>>}

\* the aggregate an earlier run left in the bucket
EarlierAggregate == [timestamp |-> AggNow - SecondsPerDay]

\* variant: only an empty listing aborts the run
NoSnapshots_NoneListed(found, downloaded) == found = 0

\* `if not snapshots`
NoSnapshots(found, downloaded) == downloaded = 0

\* main, step 1: list and download the snapshots
DownloadSnapshots ==
    /\ agg_pc = "start"
    /\ \E o \in DownloadOutcomes, earlier \in {<<>>, <<EarlierAggregate>>} :
          /\ agg_found' = o[1]
          /\ agg_downloaded' = o[2]
          /\ aggregate_file' = earlier
    /\ agg_pc' = "downloaded"
    /\ UNCHANGED <<agg_registry, agg_accumulated, agg_daily, agg_now, metricVars,
                   exit_code, accVars, regVars, actVars, dailyVars, bucketVars, deleteVars, validateVars,
                   downloadVars,
                   nameVars,
                   frameVars,
                   fetchVars>>

\* main: sys.exit(1) when nothing was downloaded
AbortNoSnapshots ==
    /\ agg_pc = "downloaded"
    /\ NoSnapshots(agg_found, agg_downloaded)
    /\ agg_pc' = "aborted"
    /\ exit_code' = 1
    /\ UNCHANGED <<agg_registry, agg_accumulated, agg_daily, agg_now, metricVars,
                   agg_found, agg_downloaded, aggregate_file,
                   accVars, regVars, actVars, dailyVars, bucketVars, deleteVars, validateVars,
                   downloadVars,
                   nameVars,
                   frameVars,
                   fetchVars>>

\* main, steps 2-3: the latest snapshot's accumulated data and the registry
\* replayed from all snapshots
LoadSnapshots ==
    /\ agg_pc = "downloaded"
    /\ ~NoSnapshots(agg_found, agg_downloaded)
    /\ \E reg \in RegistryInputs, acc \in AccumulatedInputs, daily \in DailyInputs :
          /\ agg_registry' = reg
          /\ agg_accumulated' = acc
          /\ agg_daily' = daily
    /\ agg_pc' = "loaded"
    /\ UNCHANGED <<agg_now, metricVars, agg_found, agg_downloaded,
                   aggregate_file, exit_code, accVars, regVars, actVars, dailyVars, bucketVars, deleteVars, validateVars,
                   downloadVars,
                   nameVars,
                   frameVars,
                   fetchVars>>

\* main: stubs for the workspaces only accumulated_usage knows
EnrichRegistry ==
    /\ agg_pc = "loaded"
    /\ agg_registry' = enrich_registry_from_accumulated(agg_registry, agg_accumulated)
    /\ agg_pc' = "enriched"
    /\ UNCHANGED <<agg_accumulated, agg_daily, agg_now, metricVars, agg_found,
                   agg_downloaded, aggregate_file, exit_code,
                   accVars, regVars, actVars, dailyVars, bucketVars, deleteVars, validateVars,
                   downloadVars,
                   nameVars,
                   frameVars,
                   fetchVars>>

\* main, step 4: the five metric calculators, in the order of the code
ComputeTeamMetrics ==
    /\ agg_pc = "enriched"
    /\ agg_now' = AggNow
    /\ team_metrics' = compute_team_metrics(agg_registry, agg_accumulated,
                                            agg_daily, AggNow)
    /\ agg_pc' = "teams"
    /\ UNCHANGED <<agg_registry, agg_accumulated, agg_daily, platform_metrics,
                   template_metrics, daily_engagement, workspace_metrics,
                   agg_found, agg_downloaded, aggregate_file, exit_code,
                   accVars, regVars, actVars, dailyVars, bucketVars, deleteVars, validateVars,
                   downloadVars,
                   nameVars,
                   frameVars,
                   fetchVars>>

ComputePlatformMetrics ==
    /\ agg_pc = "teams"
    /\ platform_metrics' = compute_platform_metrics(agg_registry, agg_accumulated,
                                                    team_metrics, agg_now)
    /\ agg_pc' = "platform"
    /\ UNCHANGED <<agg_registry, agg_accumulated, agg_daily, agg_now,
                   team_metrics, template_metrics, daily_engagement,
                   workspace_metrics, agg_found, agg_downloaded, aggregate_file,
                   exit_code, accVars, regVars, actVars, dailyVars, bucketVars, deleteVars, validateVars,
                   downloadVars,
                   nameVars,
                   frameVars,
                   fetchVars>>

ComputeTemplateMetrics ==
    /\ agg_pc = "platform"
    /\ template_metrics' = compute_template_metrics(agg_registry, LatestTemplates,
                                                    agg_accumulated, agg_now)
    /\ agg_pc' = "templates"
    /\ UNCHANGED <<agg_registry, agg_accumulated, agg_daily, agg_now,
                   team_metrics, platform_metrics, daily_engagement,
                   workspace_metrics, agg_found, agg_downloaded, aggregate_file,
                   exit_code, accVars, regVars, actVars, dailyVars, bucketVars, deleteVars, validateVars,
                   downloadVars,
                   nameVars,
                   frameVars,
                   fetchVars>>

ComputeDailyEngagement ==
    /\ agg_pc = "templates"
    /\ daily_engagement' = compute_daily_engagement(agg_daily, agg_now)
    /\ agg_pc' = "daily"
    /\ UNCHANGED <<agg_registry, agg_accumulated, agg_daily, agg_now,
                   team_metrics, platform_metrics, template_metrics,
                   workspace_metrics, agg_found, agg_downloaded, aggregate_file,
                   exit_code, accVars, regVars, actVars, dailyVars, bucketVars, deleteVars, validateVars,
                   downloadVars,
                   nameVars,
                   frameVars,
                   fetchVars>>

ComputeWorkspaceMetrics ==
    /\ agg_pc = "daily"
    /\ workspace_metrics' = compute_workspace_metrics(agg_registry, agg_now)
    /\ agg_pc' = "workspaces"
    /\ UNCHANGED <<agg_registry, agg_accumulated, agg_daily, agg_now,
                   team_metrics, platform_metrics, template_metrics,
                   daily_engagement, agg_found, agg_downloaded, aggregate_file,
                   exit_code, accVars, regVars, actVars, dailyVars, bucketVars, deleteVars, validateVars,
                   downloadVars,
                   nameVars,
                   frameVars,
                   fetchVars>>

\* main, step 5: the aggregate uploaded over analytics_aggregate.json
UploadAggregate ==
    /\ agg_pc = "workspaces"
    /\ aggregate_file' =
           <<[timestamp |-> agg_now,
              platform_metrics |-> platform_metrics,
              team_metrics |-> team_metrics,
              workspace_metrics |-> workspace_metrics,
              template_metrics |-> template_metrics,
              daily_engagement |-> daily_engagement]>>
    /\ agg_pc' = "done"
    /\ exit_code' = 0
    /\ UNCHANGED <<agg_registry, agg_accumulated, agg_daily, agg_now, metricVars,
                   agg_found, agg_downloaded, accVars, regVars, actVars, dailyVars, bucketVars, deleteVars, validateVars,
                   downloadVars,
                   nameVars,
                   frameVars,
                   fetchVars>>

\* the upload raises: the run ends with a traceback and the blob is untouched
UploadFails ==
    /\ agg_pc = "workspaces"
    /\ agg_pc' = "failed"
    /\ exit_code' = 1
    /\ UNCHANGED <<agg_registry, agg_accumulated, agg_daily, agg_now, metricVars,
                   agg_found, agg_downloaded, aggregate_file,
                   accVars, regVars, actVars, dailyVars, bucketVars, deleteVars, validateVars,
                   downloadVars,
                   nameVars,
                   frameVars,
                   fetchVars>>

NextTeam ==
    \/ DownloadSnapshots
    \/ AbortNoSnapshots
    \/ LoadSnapshots
    \/ EnrichRegistry
    \/ ComputeTeamMetrics
    \/ ComputePlatformMetrics
    \/ ComputeTemplateMetrics
    \/ ComputeDailyEngagement
    \/ ComputeWorkspaceMetrics
    \/ UploadAggregate
    \/ UploadFails
SpecTeam == Init /\ [][NextTeam]_vars

(***************************************************************************)
(* collect.py: calculate_daily_engagement                                  *)
(*                                                                         *)
(* A build is [transition, created_at, connections]: connections are the   *)
(* first_connected_at / last_connected_at values of its agents in the      *)
(* order the loops visit them.  A timestamp is in seconds, 0 is a missing  *)
(* one and Malformed a value whose handling raises inside the try block.   *)
(***************************************************************************)
Malformed == -2

\* conn_time.split("T")[0]: the date of a timestamp
DateOf(timestamp) == timestamp \div SecondsPerDay

\* daily_engagement[date]["unique_users"].add(owner),
\* ["active_workspaces"].add(workspace_id), creating the date when new
Track(ledger, date, owner_name, workspace_id) ==
    [d \in DOMAIN ledger \cup {date} |->
        IF d = date
        THEN [unique_users |->
                  (IF d \in DOMAIN ledger THEN ledger[d].unique_users ELSE {})
                  \cup {owner_name},
              active_workspaces |->
                  (IF d \in DOMAIN ledger THEN ledger[d].active_workspaces ELSE {})
                  \cup {workspace_id}]
        ELSE ledger[d]]

\* the loops over resources, agents and connection fields; an exception
\* leaves the loop and keeps what was tracked before it
RECURSIVE TrackConnections(_, _, _, _)
TrackConnections(ledger, connections, owner_name, workspace_id) ==
    IF connections = <<>> THEN ledger
    ELSE IF Head(connections) = Malformed THEN ledger
    ELSE TrackConnections(
             IF Head(connections) = 0 THEN ledger
             ELSE Track(ledger, DateOf(Head(connections)), owner_name, workspace_id),
             Tail(connections), owner_name, workspace_id)

\* the body of the loop over a workspace's builds
TrackBuild(ledger, build, owner_name, workspace_id) ==
    IF build.created_at = Malformed /\ build.transition = "start" THEN ledger
    ELSE LET started ==
                 IF build.transition = "start" /\ build.created_at # 0
                 THEN Track(ledger, DateOf(build.created_at), owner_name, workspace_id)
                 ELSE ledger
         IN TrackConnections(started, build.connections, owner_name, workspace_id)

RECURSIVE TrackBuilds(_, _, _, _)
TrackBuilds(ledger, builds, owner_name, workspace_id) ==
    IF builds = <<>> THEN ledger
    ELSE TrackBuilds(TrackBuild(ledger, Head(builds), owner_name, workspace_id),
                     Tail(builds), owner_name, workspace_id)

RECURSIVE TrackWorkspaces(_, _)
TrackWorkspaces(ledger, workspaces) ==
    IF workspaces = <<>> THEN ledger
    ELSE LET workspace == Head(workspaces)
         IN TrackWorkspaces(
                TrackBuilds(ledger, Get(workspace, "all_builds", <<>>),
                            Lower(Get(workspace, "owner_name", "")), workspace.id),
                Tail(workspaces))

\* the ledger the function starts from: the history, each entry read with
\* data.get(key, [])
FromHistory(historical_daily_engagement) ==
    [d \in DOMAIN historical_daily_engagement |->
        [unique_users |-> Get(historical_daily_engagement[d], "unique_users", {}),
         active_workspaces |->
             Get(historical_daily_engagement[d], "active_workspaces", {})]]

\* variant: the ledger is rebuilt from the current workspaces only
calculate_daily_engagement_CurrentOnly(workspaces, historical_daily_engagement) ==
    TrackWorkspaces(EmptyMap, workspaces)

calculate_daily_engagement(workspaces, historical_daily_engagement) ==
    TrackWorkspaces(FromHistory(historical_daily_engagement), workspaces)

\* the builds a workspace can come with: a start without agents, a stop
\* whose agent connected on two dates, a start without created_at, and a
\* start followed by a connection value that raises
BuildOptions ==
    {[transition |-> "start", created_at |-> SecondsPerDay + 60, connections |-> <<>>],
     [transition |-> "stop", created_at |-> 2 * SecondsPerDay,
      connections |-> <<SecondsPerDay + 120, 2 * SecondsPerDay + 120>>],
     [transition |-> "start", created_at |-> 0, connections |-> <<0, 0>>],
     [transition |-> "start", created_at |-> 3 * SecondsPerDay,
      connections |-> <<Malformed, SecondsPerDay + 120>>]}

\* w1 is owned by U1 (tracked as u1), w3 by u2; either may be gone, or be
\* listed without builds
EngagementWorkspaces ==
    {l1 \o l2 :
        l1 \in {<<>>, <<[id |-> "w1", owner_name |-> "U1"]>>} \cup
               {<<[id |-> "w1", owner_name |-> "U1", all_builds |-> <<b>>]>> :
                   b \in BuildOptions},
        l2 \in {<<>>} \cup
               {<<[id |-> "w3", owner_name |-> "u2", all_builds |-> <<b>>]>> :
                   b \in BuildOptions}}

\* one collector run (collect.main, the daily engagement part): the ledger
\* of the previous snapshot is the history of this one
EngagementRun ==
    /\ engagement_runs < MaxRuns
    /\ \E workspaces \in EngagementWorkspaces :
          /\ accumulated_daily_engagement' =
                 calculate_daily_engagement(workspaces, accumulated_daily_engagement)
          /\ engagement_workspaces' = workspaces
    /\ engagement_runs' = engagement_runs + 1
    /\ UNCHANGED <<accVars, regVars, actVars, teamVars, bucketVars, deleteVars, validateVars,
                   downloadVars,
                   nameVars,
                   frameVars,
                   fetchVars>>

NextDaily == EngagementRun
SpecDaily == Init /\ [][NextDaily]_vars

(***************************************************************************)
(* collect.py: create_snapshot and upload_to_gcs                           *)
(*                                                                         *)
(* A snapshot's timestamp is the number of the run that created it; its    *)
(* blob name is a function of the timestamp, so the blobs are keyed by     *)
(* timestamp.  Both uploads send the same snapshot_json.                   *)
(***************************************************************************)
MaxUploads == 3

\* create_snapshot: the timestamp and what the run collected (the number of
\* workspaces stands for the rest of the content)
create_snapshot(timestamp, workspace_count) ==
    [timestamp |-> timestamp, workspaces |-> workspace_count]

\* blob.upload_from_string: the blob of that name is created or replaced
WriteBlob(blobs, snapshot) ==
    [t \in DOMAIN blobs \cup {snapshot.timestamp} |->
        IF t = snapshot.timestamp THEN snapshot ELSE blobs[t]]

\* variant: the second upload leaves latest.json as it was
LatestContent_Stale(snapshot, previous) == previous

\* the content the second upload writes to latest.json
LatestContent(snapshot, previous) == <<snapshot>>

\* upload_to_gcs, first upload: snapshots/<timestamp>.json is written
UploadSnapshotBlob ==
    /\ upload_pc = "idle"
    /\ upload_clock < MaxUploads
    /\ \E n \in 0..2 :
          snapshot_blobs' =
              WriteBlob(snapshot_blobs, create_snapshot(upload_clock + 1, n))
    /\ upload_clock' = upload_clock + 1
    /\ upload_pc' = "between"
    /\ upload_outcome' = "uploading"
    /\ UNCHANGED <<latest_json, accVars, regVars, actVars, teamVars, dailyVars, deleteVars, validateVars,
                   downloadVars,
                   nameVars,
                   frameVars,
                   fetchVars>>

\* the bucket lookup or the first upload raises: nothing is written
UploadSnapshotBlobFails ==
    /\ upload_pc = "idle"
    /\ upload_clock < MaxUploads
    /\ upload_clock' = upload_clock + 1
    /\ upload_outcome' = "snapshot upload failed"
    /\ UNCHANGED <<snapshot_blobs, latest_json, upload_pc,
                   accVars, regVars, actVars, teamVars, dailyVars, deleteVars, validateVars,
                   downloadVars,
                   nameVars,
                   frameVars,
                   fetchVars>>

\* second upload: latest.json is overwritten with the same JSON
UpdateLatest ==
    /\ upload_pc = "between"
    /\ latest_json' = LatestContent(snapshot_blobs[upload_clock], latest_json)
    /\ upload_pc' = "idle"
    /\ upload_outcome' = "uploaded"
    /\ UNCHANGED <<snapshot_blobs, upload_clock,
                   accVars, regVars, actVars, teamVars, dailyVars, deleteVars, validateVars,
                   downloadVars,
                   nameVars,
                   frameVars,
                   fetchVars>>

\* the second upload raises: the run ends with latest.json as it was
UpdateLatestFails ==
    /\ upload_pc = "between"
    /\ upload_pc' = "idle"
    /\ upload_outcome' = "latest upload failed"
    /\ UNCHANGED <<snapshot_blobs, latest_json, upload_clock,
                   accVars, regVars, actVars, teamVars, dailyVars, deleteVars, validateVars,
                   downloadVars,
                   nameVars,
                   frameVars,
                   fetchVars>>

NextUpload ==
    \/ UploadSnapshotBlob
    \/ UploadSnapshotBlobFails
    \/ UpdateLatest
    \/ UpdateLatestFails
SpecUpload == Init /\ [][NextUpload]_vars

(***************************************************************************)
(* delete_workspaces.py: delete_workspace_cli                              *)
(*                                                                         *)
(* An invocation of `coder delete` ends with a return code and two output  *)
(* texts, or run_coder_command raises RuntimeError (returncode Absent).    *)
(***************************************************************************)
OutputTexts ==
    {"", "error: initialize terraform: exit status 1",
     "Error: Terraform apply failed", "error: workspace not found"}

\* str.lower() on the output texts of the model
LowerText(t) ==
    IF t = "Error: Terraform apply failed" THEN "error: terraform apply failed"
    ELSE t

\* "terraform" in text, for the lower-cased texts of the model
HasTerraform(t) ==
    t \in {"error: initialize terraform: exit status 1",
           "error: terraform apply failed"}

\* result.stderr.strip() or result.stdout.strip() or "Unknown error"
ErrorMsg(stderr, stdout) ==
    IF stderr # "" THEN stderr ELSE IF stdout # "" THEN stdout ELSE "Unknown error"

\* variant: a call that already carried --orphan is retried too
RetryWithOrphan_AlsoOrphan(error_msg, auto_orphan_on_failure, orphan) ==
    HasTerraform(LowerText(error_msg)) /\ auto_orphan_on_failure

\* `is_terraform_error and auto_orphan_on_failure and not orphan`
RetryWithOrphan(error_msg, auto_orphan_on_failure, orphan) ==
    HasTerraform(LowerText(error_msg)) /\ auto_orphan_on_failure /\ ~orphan

\* what one invocation can come back with
InvocationOutcomes ==
    {[returncode |-> 0, stderr |-> "", stdout |-> ""]}
    \cup {[returncode |-> Absent, stderr |-> "", stdout |-> ""]}
    \cup {[returncode |-> 1, stderr |-> e, stdout |-> o] :
             e \in OutputTexts, o \in OutputTexts}

\* the call: with dry_run nothing is invoked
DeleteCall ==
    /\ delete_pc = "idle"
    /\ \E orphan \in BOOLEAN, auto \in BOOLEAN, dry_run \in BOOLEAN :
          /\ delete_args' = [orphan |-> orphan, auto_orphan_on_failure |-> auto,
                             dry_run |-> dry_run]
          /\ delete_frame' = [orphan |-> orphan, auto_orphan_on_failure |-> auto]
          /\ delete_pc' = IF dry_run THEN "returned" ELSE "invoking"
          /\ delete_result' = IF dry_run THEN "True" ELSE "none"
    /\ UNCHANGED <<delete_invocations, accVars, regVars, actVars, teamVars,
                   dailyVars, bucketVars, validateVars,
                   downloadVars,
                   nameVars,
                   frameVars,
                   fetchVars>>

\* one `coder delete <owner>/<workspace> -y [--orphan]` and what follows it:
\* return True, return False, or the recursive call with orphan=True and
\* auto_orphan_on_failure=False
InvokeDelete ==
    /\ delete_pc = "invoking"
    /\ \E out \in InvocationOutcomes :
          LET retry == /\ out.returncode \notin {0, Absent}
                       /\ RetryWithOrphan(ErrorMsg(out.stderr, out.stdout),
                                          delete_frame.auto_orphan_on_failure,
                                          delete_frame.orphan)
          IN /\ delete_invocations' =
                    Append(delete_invocations,
                           [orphan |-> delete_frame.orphan,
                            returncode |-> out.returncode,
                            stderr |-> out.stderr,
                            stdout |-> out.stdout,
                            error_msg |-> ErrorMsg(out.stderr, out.stdout)])
             /\ delete_frame' =
                    IF retry THEN [orphan |-> TRUE, auto_orphan_on_failure |-> FALSE]
                    ELSE delete_frame
             /\ delete_pc' = IF retry THEN "invoking" ELSE "returned"
             /\ delete_result' = IF out.returncode = 0 THEN "True"
                                 ELSE IF retry THEN "none" ELSE "False"
    /\ UNCHANGED <<delete_args, accVars, regVars, actVars, teamVars,
                   dailyVars, bucketVars, validateVars,
                   downloadVars,
                   nameVars,
                   frameVars,
                   fetchVars>>

NextDelete == DeleteCall \/ InvokeDelete
SpecDelete == Init /\ [][NextDelete]_vars

(***************************************************************************)
(* create_gemini_keys.py: validate_gemini_api_key                          *)
(*                                                                         *)
(* A request ends with an HTTP status, a timeout or another request        *)
(* exception.  NoMessage is the None of the (should_retry, error_message)  *)
(* tuples.                                                                 *)
(***************************************************************************)
MaxValidations == 3
VALIDATION_RETRIES == 3
RETRY_DELAYS == <<1, 2, 4>>
NoMessage == "<None>"

RequestOutcomes == {"200", "403", "400", "500", "503", "Timeout", "Network error"}

\* _handle_retry_logic: before the last attempt it sleeps and returns
\* (True, None); on the last attempt it returns (False, message)
_handle_retry_logic(attempt, error_msg) ==
    IF ~(attempt >= VALIDATION_RETRIES - 1)
    THEN [should_retry |-> TRUE, error_message |-> NoMessage,
          slept |-> <<RETRY_DELAYS[attempt + 1]>>]
    ELSE [should_retry |-> FALSE,
          error_message |-> error_msg \o " after 3 attempts",
          slept |-> <<>>]

\* _perform_validation_request, given what requests.get came back with
_perform_validation_request(outcome, attempt) ==
    IF outcome = "200"
    THEN [should_retry |-> FALSE, error_message |-> NoMessage, slept |-> <<>>]
    ELSE IF outcome = "403"
    THEN [should_retry |-> FALSE,
          error_message |-> "Permission denied (HTTP 403)", slept |-> <<>>]
    ELSE IF outcome = "400"
    THEN [should_retry |-> FALSE,
          error_message |-> "Invalid key (HTTP 400)", slept |-> <<>>]
    ELSE IF outcome = "Timeout" THEN _handle_retry_logic(attempt, "Timeout")
    ELSE IF outcome = "Network error"
    THEN _handle_retry_logic(attempt, "Network error: connection reset")
    ELSE _handle_retry_logic(attempt, "HTTP " \o outcome)

\* the call: dry_run or skip_validation returns at once
ValidateCall ==
    /\ validate_pc \in {"idle", "returned"}
    /\ Len(validate_log) < MaxValidations
    /\ validate_attempt' = 0
    /\ validate_requests' = <<>>
    /\ validate_sleeps' = <<>>
    /\ \E skip_validation \in BOOLEAN, dry_run \in BOOLEAN :
          IF dry_run \/ skip_validation
          THEN /\ validate_result' = [is_valid |-> TRUE, status |-> "Validation skipped"]
               /\ validate_log' = Append(validate_log, validate_result')
               /\ validate_pc' = "returned"
          ELSE /\ validate_result' = NoResult
               /\ validate_log' = validate_log
               /\ validate_pc' = "looping"
    /\ UNCHANGED <<accVars, regVars, actVars, teamVars, dailyVars, bucketVars,
                   deleteVars,
                   downloadVars,
                   nameVars,
                   frameVars,
                   fetchVars>>

\* one iteration of `for attempt in range(VALIDATION_RETRIES)`, and the
\* return after the loop when it was the last one
ValidationAttempt ==
    /\ validate_pc = "looping"
    /\ \E outcome \in RequestOutcomes :
          LET r == _perform_validation_request(outcome, validate_attempt)
              returns == r.error_message = NoMessage \/ ~r.should_retry
                         \/ validate_attempt + 1 >= VALIDATION_RETRIES
              result == IF r.error_message = NoMessage
                        THEN [is_valid |-> TRUE, status |-> "Valid"]
                        ELSE IF ~r.should_retry
                        THEN [is_valid |-> FALSE, status |-> r.error_message]
                        ELSE [is_valid |-> FALSE, status |-> "Unknown error"]
          IN /\ validate_requests' = Append(validate_requests, outcome)
             /\ validate_sleeps' = validate_sleeps \o r.slept
             /\ validate_attempt' = validate_attempt + 1
             /\ validate_result' = IF returns THEN result ELSE NoResult
             /\ validate_log' = IF returns THEN Append(validate_log, result)
                                ELSE validate_log
             /\ validate_pc' = IF returns THEN "returned" ELSE "looping"
    /\ UNCHANGED <<accVars, regVars, actVars, teamVars, dailyVars, bucketVars,
                   deleteVars,
                   downloadVars,
                   nameVars,
                   frameVars,
                   fetchVars>>

NextValidate == ValidateCall \/ ValidationAttempt
SpecValidate == Init /\ [][NextValidate]_vars

(***************************************************************************)
(* aggregate.py: list_snapshot_names, download_snapshot,                   *)
(* download_all_snapshots and the choice of `latest` in main               *)
(*                                                                         *)
(* A blob name is the integer that orders it (the name embeds a sortable   *)
(* timestamp).  The pool runs the downloads concurrently, so as_completed  *)
(* may yield them in any order.                                            *)
(***************************************************************************)
MaxBlobs == 3

BlobUniverse == 1..MaxBlobs

\* the content of blob `name` once parsed
SnapshotOf(name) == [timestamp |-> name, blob |-> name]

\* sorted(b.name for b in blobs ...)
RECURSIVE SortedNames(_)
SortedNames(S) ==
    IF S = {} THEN <<>>
    ELSE LET least == CHOOSE n \in S : \A o \in S : n <= o
         IN <<least>> \o SortedNames(S \ {least})

\* variant: the returned list follows the completion order
ReturnOrder_Completion(names, completion) == completion

\* `for name in blob_names`: the list that fixes the order of the result
ReturnOrder(names, completion) == names

\* the loop that builds `ordered` over the names in `order`
RECURSIVE CollectOrdered(_, _)
CollectOrdered(order, res) ==
    IF order = <<>> THEN <<>>
    ELSE LET name == Head(order)
             snapshot == IF name \in DOMAIN res THEN res[name] ELSE FailedDownload
         IN (IF snapshot # FailedDownload THEN <<snapshot>> ELSE <<>>)
                \o CollectOrdered(Tail(order), res)

\* main: snapshot_names = list_snapshot_names(bucket)
ListSnapshotNames ==
    /\ download_pc = "start"
    /\ \E blobs \in SUBSET BlobUniverse :
          /\ bucket_blobs' = blobs
          /\ blob_names' = SortedNames(blobs)
    /\ download_pc' = "listed"
    /\ UNCHANGED <<futures, completed, results, ordered, latest_snapshot>>
    /\ UNCHANGED <<accVars, regVars, actVars, teamVars, dailyVars, bucketVars,
                   deleteVars, validateVars,
                   nameVars,
                   frameVars,
                   fetchVars>>

\* download_all_snapshots: one future per blob name is submitted
SubmitDownloads ==
    /\ download_pc = "listed"
    /\ futures' = SeqToSet(blob_names)
    /\ completed' = <<>>
    /\ results' = EmptyMap
    /\ download_pc' = "downloading"
    /\ UNCHANGED <<bucket_blobs, blob_names, ordered, latest_snapshot>>
    /\ UNCHANGED <<accVars, regVars, actVars, teamVars, dailyVars, bucketVars,
                   deleteVars, validateVars,
                   nameVars,
                   frameVars,
                   fetchVars>>

\* one future completes: download_snapshot returned the parsed snapshot, or
\* None after a failed download or parse; results[name] records it
CompleteDownload ==
    /\ download_pc = "downloading"
    /\ \E name \in futures, parsed \in BOOLEAN :
          /\ futures' = futures \ {name}
          /\ completed' = Append(completed, name)
          /\ results' = [n \in DOMAIN results \cup {name} |->
                            IF n = name
                            THEN (IF parsed THEN SnapshotOf(name) ELSE FailedDownload)
                            ELSE results[n]]
    /\ UNCHANGED <<download_pc, bucket_blobs, blob_names, ordered, latest_snapshot>>
    /\ UNCHANGED <<accVars, regVars, actVars, teamVars, dailyVars, bucketVars,
                   deleteVars, validateVars,
                   nameVars,
                   frameVars,
                   fetchVars>>

\* every future is done: the result list is built and returned
ReturnOrdered ==
    /\ download_pc = "downloading"
    /\ futures = {}
    /\ ordered' = CollectOrdered(ReturnOrder(blob_names, completed), results)
    /\ download_pc' = "returned"
    /\ UNCHANGED <<bucket_blobs, blob_names, futures, completed, results, latest_snapshot>>
    /\ UNCHANGED <<accVars, regVars, actVars, teamVars, dailyVars, bucketVars,
                   deleteVars, validateVars,
                   nameVars,
                   frameVars,
                   fetchVars>>

\* main: `if not snapshots: sys.exit(1)`
AbortNothingDownloaded ==
    /\ download_pc = "returned"
    /\ ordered = <<>>
    /\ download_pc' = "aborted"
    /\ UNCHANGED <<bucket_blobs, blob_names, futures, completed, results,
                   ordered, latest_snapshot>>
    /\ UNCHANGED <<accVars, regVars, actVars, teamVars, dailyVars, bucketVars,
                   deleteVars, validateVars,
                   nameVars,
                   frameVars,
                   fetchVars>>

\* main: latest = snapshots[-1]
TakeLatest ==
    /\ download_pc = "returned"
    /\ ordered # <<>>
    /\ latest_snapshot' = ordered[Len(ordered)]
    /\ download_pc' = "loaded"
    /\ UNCHANGED <<bucket_blobs, blob_names, futures, completed, results, ordered>>
    /\ UNCHANGED <<accVars, regVars, actVars, teamVars, dailyVars, bucketVars,
                   deleteVars, validateVars,
                   nameVars,
                   frameVars,
                   fetchVars>>

NextDownload ==
    \/ ListSnapshotNames
    \/ SubmitDownloads
    \/ CompleteDownload
    \/ ReturnOrdered
    \/ AbortNothingDownloaded
    \/ TakeLatest
SpecDownload == Init /\ [][NextDownload]_vars

(***************************************************************************)
(* collect.py: the timestamp of create_snapshot and the blob name of       *)
(* upload_to_gcs                                                           *)
(*                                                                         *)
(* A string is the sequence of its characters; strings compare as Python   *)
(* compares them, by code point.  An instant is [second, microsecond]      *)
(* within one minute of one day.                                           *)
(***************************************************************************)
MaxSecond == 2
MaxCreated == 3

Microseconds == {0, 1, 500000, 999999}

Instants == [second : 0..MaxSecond, microsecond : Microseconds]

Earlier(t1, t2) ==
    \/ t1.second < t2.second
    \/ t1.second = t2.second /\ t1.microsecond < t2.microsecond

\* ord() of the characters that occur
Ord ==
    [c \in {"+", "-", ".", "/", "0", "1", "2", "3", "4", "5", "6", "7", "8",
            "9", ":", "T", "Z", "a", "h", "j", "n", "o", "p", "s", "t"} |->
        CASE c = "+" -> 43 [] c = "-" -> 45 [] c = "." -> 46 [] c = "/" -> 47
          [] c = "0" -> 48 [] c = "1" -> 49 [] c = "2" -> 50 [] c = "3" -> 51
          [] c = "4" -> 52 [] c = "5" -> 53 [] c = "6" -> 54 [] c = "7" -> 55
          [] c = "8" -> 56 [] c = "9" -> 57 [] c = ":" -> 58 [] c = "T" -> 84
          [] c = "Z" -> 90 [] c = "a" -> 97 [] c = "h" -> 104 [] c = "j" -> 106
          [] c = "n" -> 110 [] c = "o" -> 111 [] c = "p" -> 112
          [] c = "s" -> 115 [] c = "t" -> 116]

\* s1 < s2 for Python strings
RECURSIVE StrLess(_, _)
StrLess(s1, s2) ==
    IF s2 = <<>> THEN FALSE
    ELSE IF s1 = <<>> THEN TRUE
    ELSE IF Head(s1) # Head(s2) THEN Ord[Head(s1)] < Ord[Head(s2)]
    ELSE StrLess(Tail(s1), Tail(s2))

DigitChar(d) == <<"0", "1", "2", "3", "4", "5", "6", "7", "8", "9">>[d + 1]

\* n written with `width` digits, zero padded
RECURSIVE Digits(_, _)
Digits(n, width) ==
    IF width = 0 THEN <<>>
    ELSE Append(Digits(n \div 10, width - 1), DigitChar(n % 10))

StartsWith(s, prefix) ==
    Len(s) >= Len(prefix) /\ SubSeq(s, 1, Len(prefix)) = prefix

\* str.replace(old, new)
RECURSIVE Replace(_, _, _)
Replace(s, old, new) ==
    IF s = <<>> THEN <<>>
    ELSE IF StartsWith(s, old)
    THEN new \o Replace(SubSeq(s, Len(old) + 1, Len(s)), old, new)
    ELSE <<Head(s)>> \o Replace(Tail(s), old, new)

\* datetime.isoformat() of an aware UTC datetime: the fractional part is
\* left out when the microsecond is 0
isoformat(t) ==
    <<"2", "0", "2", "5", "-", "0", "1", "-", "0", "1", "T", "1", "2", ":", "0", "0", ":">>
        \o Digits(t.second, 2)
        \o (IF t.microsecond = 0 THEN <<>>
            ELSE <<".">> \o Digits(t.microsecond, 6))
        \o <<"+", "0", "0", ":", "0", "0">>

\* create_snapshot: the timestamp field
SnapshotTimestamp(t) == Replace(isoformat(t), <<"+", "0", "0", ":", "0", "0">>, <<"Z">>)

\* upload_to_gcs: the name of the snapshot's blob
timestamp_filename(timestamp) ==
    <<"s", "n", "a", "p", "s", "h", "o", "t", "s", "/">>
        \o Replace(Replace(timestamp, <<":">>, <<"-">>), <<".">>, <<"-">>)
        \o <<".", "j", "s", "o", "n">>

\* one collector run: the snapshot is created at instant t, later than
\* every earlier run's, and uploaded under its name
CreateAndUpload ==
    /\ Len(created_snapshots) < MaxCreated
    /\ \E t \in Instants :
          /\ \A i \in 1..Len(created_snapshots) : Earlier(created_snapshots[i].instant, t)
          /\ created_snapshots' =
                Append(created_snapshots,
                       [instant |-> t,
                        timestamp |-> SnapshotTimestamp(t),
                        name |-> timestamp_filename(SnapshotTimestamp(t))])
    /\ UNCHANGED <<accVars, regVars, actVars, teamVars, dailyVars, bucketVars,
                   deleteVars, validateVars, downloadVars,
                   frameVars,
                   fetchVars>>

NextName == CreateAndUpload
SpecName == Init /\ [][NextName]_vars

(***************************************************************************)
(* collect.py: calculate_accumulated_usage on objects                      *)
(*                                                                         *)
(* The heap is the sequence of the objects created so far, an address is   *)
(* an index.  A dict of records is [dict |-> key -> address], a list is    *)
(* [list |-> items]; a usage record is an object whose workspace_ids field *)
(* is the address of a list.  The arguments that the function only reads   *)
(* (current_workspaces, historical_workspace_snapshots) are one object     *)
(* each.  Hours, deltas and team names are computed by the operators of    *)
(* the accumulator above.                                                  *)
(***************************************************************************)
Alloc(h, obj) == [heap |-> Append(h, obj), addr |-> Len(h) + 1]

\* the keys of a dict, in some fixed order
RECURSIVE KeyList(_)
KeyList(S) ==
    IF S = {} THEN <<>>
    ELSE LET k == CHOOSE x \in S : TRUE IN <<k>> \o KeyList(S \ {k})

\* json.loads of a saved accumulated_usage: a dict, its records and their lists
RECURSIVE LoadRecords(_, _, _, _)
LoadRecords(h, keys, acc, d) ==
    IF keys = <<>> THEN Alloc(h, [dict |-> d])
    ELSE LET key == Head(keys)
             l == Alloc(h, [list |-> acc[key].workspace_ids])
             r == Alloc(l.heap, [acc[key] EXCEPT !.workspace_ids = l.addr])
         IN LoadRecords(r.heap, Tail(keys), acc,
                [k \in DOMAIN d \cup {key} |-> IF k = key THEN r.addr ELSE d[k]])

\* the dict of records at address a, as a value
RecordsAt(h, a) ==
    [key \in DOMAIN h[a].dict |->
        [h[h[a].dict[key]] EXCEPT !.workspace_ids = h[@].list]]

\* variant: the record itself is put in the new dict
CopyRecord_Alias(h, a) == [heap |-> h, addr |-> a]

\* v.copy(): a new dict with the same values (the same list object)
CopyRecord(h, a) == Alloc(h, h[a])

\* accumulated_usage = {k: v.copy() for k, v in historical_accumulated.items()}
RECURSIVE CopyRecords(_, _, _, _)
CopyRecords(h, keys, hist, d) ==
    IF keys = <<>> THEN Alloc(h, [dict |-> d])
    ELSE LET key == Head(keys)
             c == CopyRecord(h, hist[key])
         IN CopyRecords(c.heap, Tail(keys), hist,
                [k \in DOMAIN d \cup {key} |-> IF k = key THEN c.addr ELSE d[k]])

\* _update_existing_accumulated_record on the record at address a: the
\* fields are assigned in place, workspace_ids is assigned a new list
UpdateRecordAt(h, a, a_delta, w_delta, team_name, workspace_ids, now) ==
    LET existing_ws_ids == h[h[a].workspace_ids].list \cup SeqToSet(workspace_ids)
        l == Alloc(h, [list |-> existing_ws_ids])
    IN [l.heap EXCEPT ![a] =
            [@ EXCEPT !.total_active_hours = @ + a_delta,
                      !.total_workspace_hours = @ + w_delta,
                      !.last_updated = now,
                      !.team_name = team_name,
                      !.workspace_ids = l.addr]]

\* the keys of user_template_workspaces in insertion order
RECURSIVE KeyOrder(_)
KeyOrder(tracked) ==
    IF tracked = <<>> THEN <<>>
    ELSE LET rest == KeyOrder(SubSeq(tracked, 1, Len(tracked) - 1))
             key == WsKey(tracked[Len(tracked)])
         IN IF key \in SeqToSet(rest) THEN rest ELSE Append(rest, key)

\* the second loop of calculate_accumulated_usage: h is the heap and acc
\* the address of accumulated_usage
RECURSIVE UpdateLoop(_, _, _, _, _, _, _)
UpdateLoop(h, keys, utw, acc, hws, pm, now) ==
    IF keys = <<>> THEN h
    ELSE LET key == Head(keys)
             data == utw[key]
             team_name == _get_team_name(data.owner_name, key, pm, RecordsAt(h, acc))
             next ==
                 IF key \in DOMAIN h[acc].dict
                 THEN UpdateRecordAt(h, h[acc].dict[key],
                          active_delta(data, hws),
                          workspace_hours_delta(data, hws),
                          team_name, data.workspace_ids, now)
                 ELSE LET l == Alloc(h, [list |-> SeqToSet(data.workspace_ids)])
                          r == Alloc(l.heap,
                                   [NewAccumulatedRecord(data, team_name, now)
                                        EXCEPT !.workspace_ids = l.addr])
                      IN [r.heap EXCEPT ![acc] =
                            [dict |-> [k \in DOMAIN h[acc].dict \cup {key} |->
                                          IF k = key THEN r.addr
                                          ELSE h[acc].dict[k]]]]
         IN UpdateLoop(next, Tail(keys), utw, acc, hws, pm, now)

\* the workspace lists of the object chain: w1 is listed with one hour or
\* not at all, w2 and w3 come and go
FrameInputs == {hrs \in HoursInputs : hrs["w1"] \in {Absent, 1}}

\* collect.main: the previous snapshot is read and the workspaces are
\* fetched; every argument of the call is a fresh object
LoadArguments ==
    /\ frame_pc = "idle"
    /\ frame_runs < MaxRuns
    /\ \E hrs \in FrameInputs, act \in Hours :
          LET acc == LoadRecords(<<>>, KeyList(DOMAIN frame_history.accumulated_usage),
                                 frame_history.accumulated_usage, EmptyMap)
              hws == Alloc(acc.heap, [dict |-> frame_history.workspace_usage_snapshot])
              cw == Alloc(hws.heap, [list |-> WorkspaceList(hrs, act)])
          IN /\ heap' = cw.heap
             /\ heap_at_call' = cw.heap
             /\ frame_args' = [current_workspaces |-> cw.addr,
                               historical_accumulated |-> acc.addr,
                               historical_workspace_snapshots |-> hws.addr]
    /\ frame_pc' = "loaded"
    /\ UNCHANGED <<frame_returned, frame_history, frame_runs>>
    /\ UNCHANGED <<accVars, regVars, actVars, teamVars, dailyVars, bucketVars,
                   deleteVars, validateVars, downloadVars, nameVars,
                   fetchVars>>

\* the call of calculate_accumulated_usage
CallAccumulator ==
    /\ frame_pc = "loaded"
    /\ LET workspaces == heap[frame_args.current_workspaces].list
           hws == heap[frame_args.historical_workspace_snapshots].dict
           hist == heap[frame_args.historical_accumulated].dict
           copied == CopyRecords(heap, KeyList(DOMAIN hist), hist, EmptyMap)
           snap == Alloc(copied.heap, [dict |-> NewWorkspaceSnapshot(workspaces)])
           done == UpdateLoop(snap.heap, KeyOrder(Tracked(workspaces)),
                              user_template_workspaces(workspaces), copied.addr,
                              hws, [o \in {"u1"} |-> "team-a"], frame_runs + 1)
       IN /\ heap' = done
          /\ frame_returned' = [accumulated_usage |-> copied.addr,
                                workspace_usage_snapshot |-> snap.addr]
    /\ frame_pc' = "returned"
    /\ UNCHANGED <<frame_args, heap_at_call, frame_history, frame_runs>>
    /\ UNCHANGED <<accVars, regVars, actVars, teamVars, dailyVars, bucketVars,
                   deleteVars, validateVars, downloadVars, nameVars,
                   fetchVars>>

\* collect.main: the two returned dicts go into the snapshot that is saved
SaveReturned ==
    /\ frame_pc = "returned"
    /\ frame_history' =
          [accumulated_usage |-> RecordsAt(heap, frame_returned.accumulated_usage),
           workspace_usage_snapshot |-> heap[frame_returned.workspace_usage_snapshot].dict]
    /\ frame_runs' = frame_runs + 1
    /\ frame_pc' = "idle"
    /\ UNCHANGED <<heap, frame_args, heap_at_call, frame_returned>>
    /\ UNCHANGED <<accVars, regVars, actVars, teamVars, dailyVars, bucketVars,
                   deleteVars, validateVars, downloadVars, nameVars,
                   fetchVars>>

NextFrame == LoadArguments \/ CallAccumulator \/ SaveReturned
SpecFrame == Init /\ [][NextFrame]_vars

(***************************************************************************)
(* scripts/admin/generate_gemini_keys.py: create_api_key and               *)
(* retrieve_existing_key                                                   *)
(*                                                                         *)
(* Both functions run the same loop around `gcloud ... get-key-string`.    *)
(* A run of the command gives a key string, empty output, a non-zero exit  *)
(* (CalledProcessError) or a timeout (TimeoutExpired).  None is the empty  *)
(* string.                                                                 *)
(***************************************************************************)
max_retries == 3
RetryWait == 2
MaxKeyTeams == 2

KeyStringOutcomes == {"key", "empty", "error", "timeout"}

\* what `gcloud ... api-keys create` can give create_api_key
CreateOutcomes == {"created", "no name", "error", "timeout"}

Failure(message) == [success |-> FALSE, api_key |-> "", error_message |-> message]

\* variant: a timeout is handled inside the loop as well
HandledInLoop_AlsoTimeout(outcome) == outcome \in {"empty", "error", "timeout"}

\* the outcomes the loop body deals with itself: empty output falls through
\* and CalledProcessError is caught inside the loop; TimeoutExpired leaves
\* the loop for the outer handler
HandledInLoop(outcome) == outcome \in {"empty", "error"}

\* create_api_key up to the retry loop
CallCreateApiKey ==
    /\ fetch_pc \in {"idle", "returned"}
    /\ Len(fetch_log) < MaxKeyTeams
    /\ fetch_caller' = "create_api_key"
    /\ fetch_attempt' = 0
    /\ fetch_attempts' = <<>>
    /\ fetch_waits' = <<>>
    /\ \E dry_run \in BOOLEAN, created \in CreateOutcomes :
          IF dry_run
          THEN /\ fetch_result' = [success |-> TRUE, api_key |-> "dry-run-api-key-value",
                                   error_message |-> ""]
               /\ fetch_log' = Append(fetch_log, fetch_result')
               /\ fetch_pc' = "returned"
          ELSE IF created = "created"
          THEN /\ fetch_result' = NoKeyResult
               /\ fetch_log' = fetch_log
               /\ fetch_pc' = "fetching"
          ELSE /\ fetch_result' =
                     Failure(IF created = "no name"
                             THEN "Failed to get key resource name from response"
                             ELSE IF created = "timeout" THEN "Command timed out"
                             ELSE "gcloud command failed: stderr")
               /\ fetch_log' = Append(fetch_log, fetch_result')
               /\ fetch_pc' = "returned"
    /\ UNCHANGED <<accVars, regVars, actVars, teamVars, dailyVars, bucketVars,
                   deleteVars, validateVars, downloadVars, nameVars, frameVars>>

\* retrieve_existing_key up to the retry loop
CallRetrieveExistingKey ==
    /\ fetch_pc \in {"idle", "returned"}
    /\ Len(fetch_log) < MaxKeyTeams
    /\ fetch_log' = fetch_log
    /\ fetch_caller' = "retrieve_existing_key"
    /\ fetch_attempt' = 0
    /\ fetch_attempts' = <<>>
    /\ fetch_waits' = <<>>
    /\ fetch_result' = NoKeyResult
    /\ fetch_pc' = "fetching"
    /\ UNCHANGED <<accVars, regVars, actVars, teamVars, dailyVars, bucketVars,
                   deleteVars, validateVars, downloadVars, nameVars, frameVars>>

\* one iteration of `for attempt in range(max_retries)`, with the return
\* after the loop when it was the last one
GetKeyStringAttempt ==
    /\ fetch_pc = "fetching"
    /\ \E outcome \in KeyStringOutcomes :
          LET last == ~(fetch_attempt < max_retries - 1)
              returns == outcome = "key" \/ ~HandledInLoop(outcome) \/ last
              result ==
                  IF outcome = "key"
                  THEN [success |-> TRUE, api_key |-> "AIza-key", error_message |-> ""]
                  ELSE IF ~HandledInLoop(outcome) THEN Failure("Command timed out")
                  ELSE IF outcome = "error" THEN Failure("gcloud command failed: stderr")
                  ELSE Failure("Failed to retrieve key string after retries")
          IN /\ fetch_attempts' = Append(fetch_attempts, outcome)
             /\ fetch_waits' = IF ~returns THEN Append(fetch_waits, RetryWait)
                               ELSE fetch_waits
             /\ fetch_attempt' = fetch_attempt + 1
             /\ fetch_result' = IF returns THEN result ELSE NoKeyResult
             /\ fetch_log' = IF returns THEN Append(fetch_log, result) ELSE fetch_log
             /\ fetch_pc' = IF returns THEN "returned" ELSE "fetching"
    /\ UNCHANGED fetch_caller
    /\ UNCHANGED <<accVars, regVars, actVars, teamVars, dailyVars, bucketVars,
                   deleteVars, validateVars, downloadVars, nameVars, frameVars>>

NextFetch == CallCreateApiKey \/ CallRetrieveExistingKey \/ GetKeyStringAttempt
SpecFetch == Init /\ [][NextFetch]_vars

(***************************************************************************)
(* Properties of the usage accumulator                                     *)
(***************************************************************************)

RECURSIVE SumOver(_, _)
SumOver(S, f) ==
    IF S = {} THEN 0
    ELSE LET x == CHOOSE y \in S : TRUE IN f[x] + SumOver(S \ {x}, f)

\* ids of the workspaces of a list that fall under a key
MembersOf(workspaces, key) ==
    {workspaces[i].id : i \in {j \in 1..Len(workspaces) : WsKey(workspaces[j]) = key}}

\* the list's entry for a workspace id
EntryOf(workspaces, id) ==
    workspaces[CHOOSE i \in 1..Len(workspaces) : workspaces[i].id = id]

\* C1: over a chain of accumulator calls, whatever the raw counters do, no
\* key is ever removed and no key's total_active_hours or
\* total_workspace_hours is lower after a call than before it.
C1_Monotonic ==
    [][\A k \in DOMAIN accumulated_usage :
          /\ k \in DOMAIN accumulated_usage'
          /\ accumulated_usage'[k].total_active_hours
                >= accumulated_usage[k].total_active_hours
          /\ accumulated_usage'[k].total_workspace_hours
                >= accumulated_usage[k].total_workspace_hours]_vars

\* a later run reports w1 with a lower counter than an earlier one did and a
\* lower per-owner active_hours than the key has accumulated
C1_Witness ==
    /\ clock >= 2
    /\ "w1" \in DOMAIN workspace_usage_snapshot
    /\ workspace_usage_snapshot["w1"].workspace_hours < max_hours_seen["w1"]
    /\ workspace_usage_snapshot["w1"].active_hours
          < accumulated_usage["u1_py"].total_active_hours
    /\ accumulated_usage["u1_py"].first_seen < clock

\* C2: a key created by this run starts with total_active_hours = 0, not
\* with the per-owner active_hours value.
C2_NewKeyStartsAtZero ==
    \A k \in DOMAIN accumulated_usage :
        accumulated_usage[k].first_seen = clock
            => accumulated_usage[k].total_active_hours = 0

\* C3: a key's total_workspace_hours never exceeds the sum, over the
\* workspace ids recorded under it, of the largest total_usage_hours ever
\* observed for each of them.
C3_NoDoubleCounting ==
    \A k \in DOMAIN accumulated_usage :
        accumulated_usage[k].total_workspace_hours
            <= SumOver(accumulated_usage[k].workspace_ids, max_hours_seen)

\* C4: a key of the history is still there after a run in which none or
\* only some of its workspaces are listed, with totals not lower; a key with
\* no listed workspace comes back with every field unchanged.
C4_DeletionPreserved ==
    [][\A k \in DOMAIN accumulated_usage :
          /\ k \in DOMAIN accumulated_usage'
          /\ accumulated_usage'[k].total_active_hours
                >= accumulated_usage[k].total_active_hours
          /\ accumulated_usage'[k].total_workspace_hours
                >= accumulated_usage[k].total_workspace_hours
          /\ accumulated_usage[k].workspace_ids
                \subseteq accumulated_usage'[k].workspace_ids
          /\ MembersOf(current_workspaces', k) = {}
                => accumulated_usage'[k] = accumulated_usage[k]]_vars

\* a key holding hours whose workspaces were all missing from the last run,
\* and a key of which only some workspaces were listed
C4_Witness ==
    /\ clock >= 2
    /\ "u1_js" \in DOMAIN accumulated_usage
    /\ accumulated_usage["u1_js"].last_updated < clock
    /\ accumulated_usage["u1_js"].total_workspace_hours > 0
    /\ "u1_py" \in DOMAIN accumulated_usage
    /\ accumulated_usage["u1_py"].workspace_ids = {"w1", "w2"}
    /\ MembersOf(current_workspaces, "u1_py") = {"w2"}

\* C5: for a key already in the history that has listed workspaces, the run
\* adds max(0, current_active - previous_active) to total_active_hours
\* (previous_active from the prior snapshot of a member, 0 if none), adds the
\* sum over the members of max(0, current_hours - previous_hours) to
\* total_workspace_hours, unions the members into workspace_ids and keeps
\* first_seen.
C5_UpdateExisting ==
    [][\A k \in DOMAIN accumulated_usage :
        LET mem == MembersOf(current_workspaces', k)
            old == accumulated_usage[k]
            new == accumulated_usage'[k]
            owner == old.owner_name
            cur_active ==
                LET own == {i \in 1..Len(current_workspaces') :
                              Lower(current_workspaces'[i].owner_name) = owner}
                IN CHOOSE v \in {current_workspaces'[i].active_hours : i \in own} :
                      \A i \in own : current_workspaces'[i].active_hours <= v
            known == mem \cap DOMAIN workspace_usage_snapshot
            prev_active ==
                IF known = {} THEN 0
                ELSE workspace_usage_snapshot[CHOOSE m \in known : TRUE].active_hours
            delta == [m \in mem |->
                        Max(0, EntryOf(current_workspaces', m).total_usage_hours
                               - (IF m \in DOMAIN workspace_usage_snapshot
                                  THEN workspace_usage_snapshot[m].workspace_hours
                                  ELSE 0))]
        IN mem # {} =>
            /\ new.total_active_hours
                  = old.total_active_hours + Max(0, cur_active - prev_active)
            /\ new.total_workspace_hours
                  = old.total_workspace_hours + SumOver(mem, delta)
            /\ new.workspace_ids = old.workspace_ids \cup mem
            /\ new.first_seen = old.first_seen]_vars

\* an existing key was updated by the last run with two listed members, one
\* of them new to the key, and both totals grew past their seeds
C5_Witness ==
    /\ clock >= 2
    /\ "u1_py" \in DOMAIN accumulated_usage
    /\ accumulated_usage["u1_py"].first_seen = 1
    /\ accumulated_usage["u1_py"].last_updated = clock
    /\ MembersOf(current_workspaces, "u1_py") = {"w1", "w2"}
    /\ accumulated_usage["u1_py"].total_workspace_hours >= 2
    /\ accumulated_usage["u1_py"].total_active_hours >= 1

\* C6: the team_name a run writes to a key is the owner's non-empty team of
\* the current participant mapping, else the team_name the history stores
\* under the key, else "Unassigned".
C6_TeamPrecedence ==
    [][\A k \in DOMAIN accumulated_usage' :
        LET new == accumulated_usage'[k]
            mapped == Get(participant_mappings', new.owner_name, "")
        IN MembersOf(current_workspaces', k) # {} =>
              new.team_name =
                  IF mapped # "" THEN mapped
                  ELSE IF k \in DOMAIN accumulated_usage
                       THEN accumulated_usage[k].team_name
                       ELSE UNASSIGNED]_vars

\* the last run found the participant gone from the mapping and kept the
\* team stored before, on a key whose team an earlier run had changed
C6_Witness ==
    /\ clock >= 3
    /\ participant_mappings = EmptyMap
    /\ "u1_py" \in DOMAIN accumulated_usage
    /\ accumulated_usage["u1_py"].last_updated = clock
    /\ accumulated_usage["u1_py"].team_name = "team-b"
    /\ "u1_js" \in DOMAIN accumulated_usage
    /\ accumulated_usage["u1_js"].team_name = "team-a"

(***************************************************************************)
(* Properties of the registry replay                                       *)
(***************************************************************************)

Mentions(snapshot, id) ==
    \E i \in 1..Len(snapshot.workspaces) : snapshot.workspaces[i].id = id

ObservationOf(snapshot, id) ==
    snapshot.workspaces[CHOOSE i \in 1..Len(snapshot.workspaces) :
                            snapshot.workspaces[i].id = id]

\* the registry before the last replayed snapshot
RegistryBefore == build_workspace_registry(SubSeq(snapshots, 1, Len(snapshots) - 1))

LastSnapshot == snapshots[Len(snapshots)]

\* replaying [A, B, A] with A older than B gives what [A, B] gives
C7_RepeatIsNoOp ==
    (/\ Len(snapshots) = 3
     /\ snapshots[3] = snapshots[1]
     /\ snapshots[1].timestamp < snapshots[2].timestamp)
        => registry = build_workspace_registry(SubSeq(snapshots, 1, 2))

\* a snapshot strictly older than an entry leaves the entry as it is
C7_OlderNeverOverwrites ==
    Len(snapshots) >= 1 =>
        \A w \in DOMAIN RegistryBefore :
            RegistryBefore[w].snapshot_timestamp > LastSnapshot.timestamp
                => registry[w] = RegistryBefore[w]

\* C7 as stated: after [A, B] with A older than B, every field of an entry
\* both mention is the one B's observation gives; [A, B, A] equals [A, B];
\* an older snapshot never overwrites a newer entry.
C7_NewestWinsEveryField ==
    /\ (Len(snapshots) = 2 /\ snapshots[1].timestamp < snapshots[2].timestamp)
          => \A w \in DOMAIN registry :
                (Mentions(snapshots[1], w) /\ Mentions(snapshots[2], w))
                    => registry[w] = RegistryEntry(EmptyMap,
                                         ObservationOf(snapshots[2], w),
                                         snapshots[2].timestamp)
    /\ C7_RepeatIsNoOp
    /\ C7_OlderNeverOverwrites

\* C7 amended: as above, except that team_name is B's only when B's
\* observation carries a non-empty one, and otherwise the team_name the
\* entry had after A.
C7_NewestWinsExceptTeam ==
    /\ (Len(snapshots) = 2 /\ snapshots[1].timestamp < snapshots[2].timestamp)
          => \A w \in DOMAIN registry :
                (Mentions(snapshots[1], w) /\ Mentions(snapshots[2], w))
                    => LET obs == ObservationOf(snapshots[2], w)
                           fromB == RegistryEntry(EmptyMap, obs,
                                                  snapshots[2].timestamp)
                           afterA == build_workspace_registry(<<snapshots[1]>>)
                       IN registry[w] =
                            [fromB EXCEPT !.team_name =
                                IF Get(obs, "team_name", "") # ""
                                THEN obs.team_name ELSE afterA[w].team_name]
    /\ C7_RepeatIsNoOp
    /\ C7_OlderNeverOverwrites

\* [A, B, A] was replayed, A older than B, B's observation of w1 without a
\* team_name: the entry has B's hours and A's team
C7_Witness ==
    /\ Len(snapshots) = 3
    /\ snapshots[3] = snapshots[1]
    /\ snapshots[1].timestamp < snapshots[2].timestamp
    /\ Mentions(snapshots[1], "w1") /\ Mentions(snapshots[2], "w1")
    /\ "team_name" \notin DOMAIN ObservationOf(snapshots[2], "w1")
    /\ registry["w1"].total_usage_hours = 2
    /\ registry["w1"].team_name = "team-a"
    /\ registry["w1"].snapshot_timestamp = snapshots[2].timestamp

\* C8: replaying one more snapshot X removes no workspace id; an entry X
\* does not mention is identical before and after; the registry holds one
\* entry per workspace id, filed under its own id.
C8_NeverDeleted ==
    /\ \A w \in DOMAIN registry : registry[w].id = w
    /\ Len(snapshots) >= 1 =>
          \A w \in DOMAIN RegistryBefore :
              /\ w \in DOMAIN registry
              /\ ~Mentions(LastSnapshot, w) => registry[w] = RegistryBefore[w]

\* the last snapshot replayed does not mention w1 and is newer than w1's
\* entry, which is still in the registry
C8_Witness ==
    /\ Len(snapshots) >= 2
    /\ ~Mentions(LastSnapshot, "w1")
    /\ Mentions(LastSnapshot, "w2")
    /\ "w1" \in DOMAIN registry
    /\ registry["w1"].snapshot_timestamp < LastSnapshot.timestamp

(***************************************************************************)
(* Properties of the activity classifier                                   *)
(***************************************************************************)

\* the age in seconds of the timestamp last classified
ActAge == act_now - act_last_used_at

Classified == act_status # "none" /\ Parsable(act_last_used_at)

\* C9 as stated: exactly 7 days is active, 7 days + 1 second inactive,
\* exactly 30 days inactive, 30 days + 1 second stale.
C9_BoundariesToTheSecond ==
    Classified =>
        /\ ActAge = ACTIVE_DAYS * SecondsPerDay => act_status = "active"
        /\ ActAge = ACTIVE_DAYS * SecondsPerDay + 1 => act_status = "inactive"
        /\ ActAge = INACTIVE_DAYS * SecondsPerDay => act_status = "inactive"
        /\ ActAge = INACTIVE_DAYS * SecondsPerDay + 1 => act_status = "stale"

\* C9 amended: the age counts in whole days, so exactly 7 days and 7 days +
\* 1 second are both active and the first inactive age is exactly 8 days;
\* exactly 30 days and 30 days + 1 second are both inactive and the first
\* stale age is exactly 31 days.
C9_BoundariesInWholeDays ==
    Classified =>
        /\ ActAge = ACTIVE_DAYS * SecondsPerDay => act_status = "active"
        /\ ActAge = ACTIVE_DAYS * SecondsPerDay + 1 => act_status = "active"
        /\ ActAge = INACTIVE_DAYS * SecondsPerDay => act_status = "inactive"
        /\ ActAge = INACTIVE_DAYS * SecondsPerDay + 1 => act_status = "inactive"
        /\ act_status = "active" <=> ActAge < (ACTIVE_DAYS + 1) * SecondsPerDay
        /\ act_status = "stale" <=> ActAge >= (INACTIVE_DAYS + 1) * SecondsPerDay

\* a timestamp 7 days and 1 second old was classified active
C9_Witness ==
    /\ Classified
    /\ ActAge = ACTIVE_DAYS * SecondsPerDay + 1
    /\ act_days = ACTIVE_DAYS
    /\ act_status = "active"

(***************************************************************************)
(* Properties of the team metrics                                          *)
(***************************************************************************)

\* indices of the registry entries filed under a team
RegistryOfTeam(t) == {i \in DOMAIN agg_registry : agg_registry[i].team_name = t}

\* ids of the registry entries whose team_name is excluded
ExcludedInRegistry ==
    {agg_registry[i].id :
        i \in {j \in DOMAIN agg_registry :
                  agg_registry[j].team_name \in EXCLUDED_TEAMS}}

\* ids listed in workspace_ids by the accumulated_usage records of a team
ListedFor(t) ==
    UNION {SeqToSet(Get(agg_accumulated[i], "workspace_ids", <<>>)) :
              i \in {j \in DOMAIN agg_accumulated :
                        RecordTeam(agg_accumulated[j]) = t}}

\* every workspace id associated with a team by either source
CandidatesFor(t) == {agg_registry[i].id : i \in RegistryOfTeam(t)} \cup ListedFor(t)

\* the roster, the active users and the template distribution of an emitted
\* team are counted over the registry entries filed under that team only
RosterFromOwnTeam(tm) ==
    LET own == RegistryOfTeam(tm.team_name)
        ownOf(o) == {i \in own : agg_registry[i].owner_name = o}
        owners == {agg_registry[i].owner_name : i \in own}
        latest(o) == CHOOSE x \in {agg_registry[i].last_used_at : i \in ownOf(o)} :
                        \A i \in ownOf(o) : agg_registry[i].last_used_at <= x
    IN /\ {tm.members[i].github_handle : i \in DOMAIN tm.members} = owners
       /\ Len(tm.members) = Cardinality(owners)
       /\ \A i \in DOMAIN tm.members :
             LET m == tm.members[i]
             IN /\ m.workspace_count = Cardinality(ownOf(m.github_handle))
                /\ m.last_active = latest(m.github_handle)
       /\ tm.unique_active_users =
             Cardinality({o \in owners :
                             activity_status(latest(o), agg_now) = "active"})
       /\ DOMAIN tm.template_distribution =
             {agg_registry[i].template_display_name : i \in own}
       /\ \A d \in DOMAIN tm.template_distribution :
             tm.template_distribution[d] =
                 Cardinality({i \in own :
                                 agg_registry[i].template_display_name = d})

\* C10 as stated: no emitted team is "facilitators" or "Unassigned", and no
\* emitted team's total_workspaces, members, unique_active_users or
\* template_distribution counts a workspace whose registry team_name is
\* "facilitators" or "Unassigned".
C10_ExcludedNeverCounted ==
    agg_pc = "done" =>
        \A i \in DOMAIN team_metrics :
            LET tm == team_metrics[i]
            IN /\ tm.team_name \notin EXCLUDED_TEAMS
               /\ RosterFromOwnTeam(tm)
               /\ tm.total_workspaces <=
                      Cardinality(CandidatesFor(tm.team_name) \ ExcludedInRegistry)

\* C10 amended: no emitted team is excluded; members, unique_active_users
\* and template_distribution count only registry entries filed under the
\* team; total_workspaces counts the ids filed under the team in the
\* registry together with the ids the team's accumulated_usage records
\* list, so a workspace whose registry team_name is excluded is counted
\* exactly when such a record lists it.
C10_ExcludedCountedOnlyWhenListed ==
    agg_pc = "done" =>
        \A i \in DOMAIN team_metrics :
            LET tm == team_metrics[i]
                t == tm.team_name
            IN /\ t \notin EXCLUDED_TEAMS
               /\ RosterFromOwnTeam(tm)
               /\ tm.total_workspaces =
                      Cardinality(CandidatesFor(t) \ ExcludedInRegistry)
                      + Cardinality(ListedFor(t) \cap ExcludedInRegistry)

\* team-a was emitted with a roster while the registry holds an excluded
\* workspace that a team-a record lists
C10_Witness ==
    /\ agg_pc = "done"
    /\ ExcludedInRegistry \cap ListedFor("team-a") # {}
    /\ \E i \in DOMAIN team_metrics :
          /\ team_metrics[i].team_name = "team-a"
          /\ team_metrics[i].total_workspaces >= 2
          /\ Len(team_metrics[i].members) >= 1

(***************************************************************************)
(* Properties of the platform metrics                                      *)
(***************************************************************************)

\* the totals of a platform metrics dict
PlatformTotals(pm) ==
    [k \in {"total_workspaces", "total_users", "total_templates",
            "active_workspaces", "inactive_workspaces", "stale_workspaces"} |->
        pm[k]]

\* the run's inputs without the registry entries and the accumulated_usage
\* records of the excluded teams
RegistryWithoutExcluded ==
    SelectSeq(agg_registry, LAMBDA ws : ws.team_name \notin EXCLUDED_TEAMS)

AccumulatedWithoutExcluded ==
    SelectSeq(agg_accumulated, LAMBDA r : RecordTeam(r) \notin EXCLUDED_TEAMS)

\* C11: no platform total counts a workspace of "facilitators" or
\* "Unassigned": the totals are what they would be without the registry
\* entries and the accumulated_usage records of the excluded teams.
C11_PlatformTotalsIgnoreExcluded ==
    agg_pc = "done" =>
        PlatformTotals(platform_metrics) =
            PlatformTotals(compute_platform_metrics(
                RegistryWithoutExcluded, AccumulatedWithoutExcluded,
                team_metrics, agg_now))

(***************************************************************************)
(* Properties of the aggregator run                                        *)
(***************************************************************************)

RunEnded == agg_pc \in {"done", "failed", "aborted"}

NothingToReplay ==
    agg_registry = <<>> /\ agg_accumulated = <<>> /\ agg_daily = EmptyMap

ReportsZeros ==
    /\ team_metrics = <<>>
    /\ platform_metrics.total_teams = 0
    /\ platform_metrics.total_workspaces = 0
    /\ platform_metrics.total_users = 0
    /\ daily_engagement = <<>>
    /\ workspace_metrics = <<>>

\* C12 as stated: a run given an empty snapshot list ends normally and
\* reports zero teams, zero workspaces, zero users and an empty
\* daily-engagement list; it neither raises nor aborts.
C12_EmptyListReportsZeros ==
    (RunEnded /\ agg_downloaded = 0) =>
        /\ agg_pc = "done"
        /\ exit_code = 0
        /\ ReportsZeros

\* C12 amended: a run given an empty snapshot list aborts and reports
\* nothing; a run whose snapshots hold no workspace, no accumulated usage
\* and no daily engagement computes zero teams, zero workspaces, zero users
\* and an empty daily-engagement list and reaches the upload.
C12_EmptyContentReportsZeros ==
    /\ (RunEnded /\ agg_downloaded = 0) =>
           (agg_pc = "aborted" /\ aggregate_file \in {<<>>, <<EarlierAggregate>>})
    /\ (agg_pc \in {"workspaces", "done", "failed"} /\ NothingToReplay) =>
           (agg_downloaded > 0 /\ ReportsZeros)
    /\ (agg_pc = "done" /\ NothingToReplay) =>
           (exit_code = 0 /\ aggregate_file[1].team_metrics = <<>>)

\* a run over snapshots without content ended with the zero report uploaded
C12_Witness ==
    /\ agg_pc = "done"
    /\ NothingToReplay
    /\ agg_downloaded = 1
    /\ platform_metrics.total_workspaces = 0
    /\ aggregate_file[1].daily_engagement = <<>>

\* C13: when no snapshot is found or none downloads, the run aborts with
\* exit code 1 before any metric is computed, analytics_aggregate.json is
\* left as it was, and nothing happens afterwards.
C13_AbortBeforeMetrics ==
    [][/\ (agg_pc = "downloaded" /\ agg_downloaded = 0) =>
              /\ agg_pc' = "aborted"
              /\ exit_code' = 1
              /\ aggregate_file' = aggregate_file
              /\ metricVars' = metricVars
              /\ team_metrics' = <<>>
              /\ platform_metrics' = EmptyMap
       /\ agg_pc # "aborted"]_vars

\* a snapshot was listed, its download failed, and the run aborted with the
\* earlier aggregate still in the bucket
C13_Witness ==
    /\ agg_pc = "aborted"
    /\ agg_found = 1
    /\ agg_downloaded = 0
    /\ exit_code = 1
    /\ aggregate_file = <<EarlierAggregate>>

\* the scenario of C14: one snapshot, whose only workspace w1 is on team-a,
\* was used 3 days before now and has 2.5 usage hours; no accumulated usage
SingleWorkspaceScenario ==
    /\ agg_pc = "done"
    /\ agg_found = 1
    /\ agg_downloaded = 1
    /\ agg_accumulated = <<>>
    /\ Len(agg_registry) = 1
    /\ agg_registry[1].id = "w1"
    /\ agg_registry[1].team_name = "team-a"
    /\ agg_registry[1].last_used_at = agg_now - 3 * SecondsPerDay
    /\ agg_registry[1].total_usage_hours = 25

\* C14: in the single-workspace scenario team-a has total_workspaces = 1,
\* unique_active_users = 1 and total_workspace_hours = 3, and the workspace
\* metrics are exactly one row, with activity_status "active".
C14_SingleSnapshotRounding ==
    SingleWorkspaceScenario =>
        /\ Len(team_metrics) = 1
        /\ team_metrics[1].team_name = "team-a"
        /\ team_metrics[1].total_workspaces = 1
        /\ team_metrics[1].unique_active_users = 1
        /\ team_metrics[1].total_workspace_hours = 3
        /\ Len(workspace_metrics) = 1
        /\ workspace_metrics[1].activity_status = "active"

(***************************************************************************)
(* Properties of the stub enrichment                                       *)
(***************************************************************************)

\* the accumulated_usage records that list a workspace id
RecordsListing(id) ==
    {agg_accumulated[i] :
        i \in {j \in DOMAIN agg_accumulated :
                  id \in SeqToSet(Get(agg_accumulated[j], "workspace_ids", <<>>))}}

\* C15: after the enrichment every id listed by an accumulated_usage record
\* is in the registry, the entries the registry had are unchanged, and each
\* inserted stub has zero hours, the owner, team and template of a record
\* that lists it, and that record's last_updated (first_seen when the record
\* has no last_updated) as last_used_at.
C15_StubEnrichment ==
    [][agg_pc = "loaded" =>
          /\ \A i \in DOMAIN agg_accumulated :
                SeqToSet(Get(agg_accumulated[i], "workspace_ids", <<>>))
                    \subseteq RegistryIds(agg_registry')
          /\ Len(agg_registry') >= Len(agg_registry)
          /\ \A i \in DOMAIN agg_registry : agg_registry'[i] = agg_registry[i]
          /\ \A i \in (Len(agg_registry) + 1)..Len(agg_registry') :
                LET stub == agg_registry'[i]
                IN /\ stub.id \notin RegistryIds(agg_registry)
                   /\ stub.total_usage_hours = 0
                   /\ stub.active_hours = 0
                   /\ \E r \in RecordsListing(stub.id) :
                         /\ stub.owner_name = r.owner_name
                         /\ stub.team_name = RecordTeam(r)
                         /\ stub.template_name = r.template_name
                         /\ stub.last_used_at =
                                IF "last_updated" \in DOMAIN r
                                THEN r.last_updated ELSE r.first_seen
          /\ Cardinality(RegistryIds(agg_registry')) = Len(agg_registry')]_vars

\* the enrichment kept a registry entry and added a stub for a record that
\* has no last_updated
C15_Witness ==
    /\ agg_pc = "enriched"
    /\ \E i, j \in DOMAIN agg_registry :
          /\ agg_registry[i].snapshot_timestamp # 0
          /\ agg_registry[j].snapshot_timestamp = 0
          /\ agg_registry[j].id = "w3"
          /\ agg_registry[j].last_used_at = AggNow - 20 * SecondsPerDay
          /\ agg_registry[j].total_usage_hours = 0

(***************************************************************************)
(* Properties of the daily engagement ledger                               *)
(***************************************************************************)

\* C16: every date of the ledger a run starts from is in the ledger it
\* returns, with unique_users and active_workspaces supersets of what they
\* were, whatever workspaces the run lists; over chained runs the per-date
\* sets only grow.
C16_EngagementNeverLost ==
    [][\A d \in DOMAIN accumulated_daily_engagement :
          /\ d \in DOMAIN accumulated_daily_engagement'
          /\ accumulated_daily_engagement[d].unique_users
                 \subseteq accumulated_daily_engagement'[d].unique_users
          /\ accumulated_daily_engagement[d].active_workspaces
                 \subseteq accumulated_daily_engagement'[d].active_workspaces]_vars

\* after a run that listed no workspace the ledger still holds two dates,
\* one of them with both workspaces
C16_Witness ==
    /\ engagement_runs >= 2
    /\ engagement_workspaces = <<>>
    /\ Cardinality(DOMAIN accumulated_daily_engagement) >= 2
    /\ \E d \in DOMAIN accumulated_daily_engagement :
          accumulated_daily_engagement[d].active_workspaces = {"w1", "w3"}

(***************************************************************************)
(* Properties of the snapshot bucket                                       *)
(***************************************************************************)

\* the snapshot blob written last
NewestSnapshot ==
    snapshot_blobs[CHOOSE t \in DOMAIN snapshot_blobs :
                      \A u \in DOMAIN snapshot_blobs : u <= t]

\* C17 as stated: whenever a snapshot blob exists, also between the two
\* uploads and after a failed second upload, latest.json has the content of
\* the snapshot blob written last.
C17_LatestAlwaysMirrors ==
    DOMAIN snapshot_blobs # {} => latest_json = <<NewestSnapshot>>

\* C17 amended: after a call of upload_to_gcs whose two uploads both
\* succeeded, latest.json has the content of the snapshot blob written
\* last; in every other state latest.json is absent or has the content of
\* an earlier snapshot blob, the one of the last call that completed.
C17_LatestMirrorsAfterCompleteUpload ==
    /\ upload_outcome = "uploaded" =>
           (DOMAIN snapshot_blobs # {} /\ latest_json = <<NewestSnapshot>>)
    /\ latest_json = <<>>
       \/ \E t \in DOMAIN snapshot_blobs : latest_json = <<snapshot_blobs[t]>>
    /\ (upload_pc = "between" \/ upload_outcome = "latest upload failed") =>
           latest_json # <<NewestSnapshot>>

\* a third call completed after a call whose second upload had failed
C17_Witness ==
    /\ upload_outcome = "uploaded"
    /\ upload_clock = 3
    /\ DOMAIN snapshot_blobs = {2, 3}
    /\ latest_json = <<snapshot_blobs[3]>>

(***************************************************************************)
(* Properties of delete_workspace_cli                                      *)
(***************************************************************************)

\* C18: one call with dry_run false invokes coder delete at most twice; a
\* second invocation happens only after a first one that returned non-zero
\* with "terraform" in its error text, with auto_orphan_on_failure true and
\* orphan false, and it carries --orphan and is the last one; the call
\* returns True exactly when the last invocation returned 0; with dry_run
\* true nothing is invoked and True is returned.
C18_AutoOrphanRetry ==
    LET n == Len(delete_invocations)
    IN /\ n <= 2
       /\ delete_args.dry_run =>
              (n = 0 /\ (delete_pc = "returned" => delete_result = "True"))
       /\ n >= 1 => delete_invocations[1].orphan = delete_args.orphan
       /\ (n = 2 \/ (n = 1 /\ delete_pc = "invoking")) =>
              /\ delete_invocations[1].returncode \notin {0, Absent}
              /\ HasTerraform(LowerText(delete_invocations[1].error_msg))
              /\ delete_args.auto_orphan_on_failure
              /\ ~delete_args.orphan
              /\ delete_frame.orphan
       /\ n = 2 => (delete_invocations[2].orphan /\ delete_pc = "returned")
       /\ (delete_pc = "returned" /\ ~delete_args.dry_run) =>
              /\ n >= 1
              /\ delete_result \in {"True", "False"}
              /\ delete_result = "True" <=> delete_invocations[n].returncode = 0

\* a Terraform failure reported in upper case on stdout was retried with
\* --orphan, and the retry succeeded
C18_Witness ==
    /\ delete_pc = "returned"
    /\ Len(delete_invocations) = 2
    /\ delete_invocations[1].error_msg = "Error: Terraform apply failed"
    /\ delete_invocations[2].orphan
    /\ delete_result = "True"

(***************************************************************************)
(* Properties of validate_gemini_api_key                                   *)
(***************************************************************************)

Retryable(outcome) == outcome \notin {"200", "403", "400"}

\* C19: a call that validates issues at most 3 requests and sleeps at most
\* twice; it returns (True, "Valid") at the first HTTP 200, returns invalid
\* after one request on HTTP 403 or 400, retries every other outcome, and
\* after 3 such failures returns (False, message).
C19_BoundedValidationRetry ==
    LET n == Len(validate_requests)
    IN /\ n <= VALIDATION_RETRIES
       /\ Len(validate_sleeps) <= VALIDATION_RETRIES - 1
       /\ \A i \in 1..(n - 1) : Retryable(validate_requests[i])
       /\ (validate_pc = "returned" /\ n >= 1) =>
              /\ validate_result.is_valid <=> validate_requests[n] = "200"
              /\ validate_requests[n] = "200" => validate_result.status = "Valid"
              /\ validate_requests[n] \in {"403", "400"} => n = 1
              /\ Retryable(validate_requests[n]) =>
                     (n = VALIDATION_RETRIES /\ Len(validate_sleeps) = n - 1)

(***************************************************************************)
(* Properties of the registry replay: snapshots with equal timestamps      *)
(***************************************************************************)

\* the last replayed snapshot and an earlier one with the same timestamp
\* both mention workspace w
TiedOn(w) ==
    /\ Len(snapshots) >= 2
    /\ Mentions(LastSnapshot, w)
    /\ \E i \in 1..(Len(snapshots) - 1) :
          /\ snapshots[i].timestamp = LastSnapshot.timestamp
          /\ Mentions(snapshots[i], w)

\* C20: when two snapshots with the same timestamp both mention workspace
\* w, the one replayed later changes nothing in w's entry, and after the
\* two of them alone every field of the entry is the one the first
\* snapshot's observation gives.
C20_EqualTimestampFirstWins ==
    \A w \in {"w1", "w2"} :
        TiedOn(w) =>
            /\ w \in DOMAIN RegistryBefore
            /\ registry[w] = RegistryBefore[w]
            /\ Len(snapshots) = 2 =>
                  registry[w] = RegistryEntry(EmptyMap,
                                    ObservationOf(snapshots[1], w),
                                    snapshots[1].timestamp)

\* two snapshots with the same timestamp were replayed, with different
\* observations of w1: the entry holds the hours and the team of the first
C20_Witness ==
    /\ Len(snapshots) = 2
    /\ snapshots[1].timestamp = snapshots[2].timestamp
    /\ Mentions(snapshots[1], "w1") /\ Mentions(snapshots[2], "w1")
    /\ ObservationOf(snapshots[1], "w1").total_usage_hours = 1
    /\ ObservationOf(snapshots[2], "w1").total_usage_hours = 3
    /\ registry["w1"].total_usage_hours = 1
    /\ registry["w1"].team_name = "team-a"
    /\ registry["w1"].last_used_at = 2

(***************************************************************************)
(* Properties of the parallel download                                     *)
(***************************************************************************)

\* the blobs whose download and parse succeeded
Downloaded == {n \in DOMAIN results : results[n] # FailedDownload}

\* C21: whatever the completion order and whichever downloads fail, the
\* returned list holds exactly the parsed snapshots, once each, in the
\* order of the sorted blob names; `latest` is the one with the greatest
\* name among them; the function always returns.
C21_ChronologicalDespiteFailures ==
    /\ download_pc \in {"returned", "loaded", "aborted"} =>
          /\ DOMAIN results = bucket_blobs
          /\ Len(ordered) = Cardinality(Downloaded)
          /\ {ordered[i] : i \in 1..Len(ordered)} = {SnapshotOf(n) : n \in Downloaded}
          /\ \A i \in 1..Len(ordered), j \in 1..Len(ordered) :
                i < j => ordered[i].blob < ordered[j].blob
    /\ download_pc = "loaded" =>
          /\ latest_snapshot.blob \in Downloaded
          /\ \A n \in Downloaded : n <= latest_snapshot.blob
    /\ download_pc = "aborted" => Downloaded = {}

\* three blobs completed newest first, the middle one failed to parse: the
\* two others are returned oldest first and the newest is `latest`
C21_Witness ==
    /\ download_pc = "loaded"
    /\ blob_names = <<1, 2, 3>>
    /\ completed = <<3, 2, 1>>
    /\ results[2] = FailedDownload
    /\ ordered = <<SnapshotOf(1), SnapshotOf(3)>>
    /\ latest_snapshot = SnapshotOf(3)

(***************************************************************************)
(* Properties of snapshot timestamps and blob names                        *)
(***************************************************************************)

\* C22: of two snapshots created at instants t1 < t2, the first has the
\* smaller blob name and the smaller timestamp field, as strings.
C22_LexicographicIsChronological ==
    \A i \in 1..Len(created_snapshots), j \in 1..Len(created_snapshots) :
        Earlier(created_snapshots[i].instant, created_snapshots[j].instant) =>
            /\ StrLess(created_snapshots[i].name, created_snapshots[j].name)
            /\ StrLess(created_snapshots[i].timestamp, created_snapshots[j].timestamp)

(***************************************************************************)
(* Properties of calculate_accumulated_usage on objects                    *)
(***************************************************************************)

\* C23: after the call every object that existed when it was made (the
\* historical_accumulated dict, its records, their workspace_ids lists,
\* historical_workspace_snapshots, current_workspaces) is as it was; the
\* returned dicts and the records of the returned accumulated_usage are
\* objects made by the call.
C23_ArgumentsUnchanged ==
    frame_pc = "returned" =>
        /\ \A a \in 1..Len(heap_at_call) : heap[a] = heap_at_call[a]
        /\ frame_returned.accumulated_usage > Len(heap_at_call)
        /\ frame_returned.workspace_usage_snapshot > Len(heap_at_call)
        /\ \A key \in DOMAIN heap[frame_returned.accumulated_usage].dict :
              heap[frame_returned.accumulated_usage].dict[key] > Len(heap_at_call)

\* a call updated the record of a key of the history: the returned record
\* has more hours and one more workspace id than the historical one
C23_Witness ==
    /\ frame_pc = "returned"
    /\ "u1_py" \in DOMAIN heap[frame_args.historical_accumulated].dict
    /\ LET old == heap[heap[frame_args.historical_accumulated].dict["u1_py"]]
           new == heap[heap[frame_returned.accumulated_usage].dict["u1_py"]]
       IN /\ new.total_workspace_hours > old.total_workspace_hours
          /\ heap[old.workspace_ids].list = {"w1"}
          /\ heap[new.workspace_ids].list = {"w1", "w2"}

(***************************************************************************)
(* Properties of the platform metrics: the most popular template           *)
(***************************************************************************)

PlatformComputed ==
    agg_pc \in {"platform", "templates", "daily", "workspaces", "done", "failed"}

\* the registry entries the platform metrics count, in registry order
Counted == SelectSeq(agg_registry, LAMBDA ws : ws.team_name \notin EXCLUDED_TEAMS)

CountedTemplates == {Counted[i].template_name : i \in DOMAIN Counted} \ {""}

CurrentCount(t) == Cardinality({i \in DOMAIN Counted : Counted[i].template_name = t})

MostUsed == {t \in CountedTemplates : \A u \in CountedTemplates : CurrentCount(u) <= CurrentCount(t)}

FirstSeenAt(t) ==
    CHOOSE i \in DOMAIN Counted :
        /\ Counted[i].template_name = t
        /\ \A j \in 1..(i - 1) : Counted[j].template_name # t

LastSeenAt(t) ==
    CHOOSE i \in DOMAIN Counted :
        /\ Counted[i].template_name = t
        /\ \A j \in (i + 1)..Len(Counted) : Counted[j].template_name # t

\* C24 as stated: the reported template has the largest current count and,
\* of the templates that have it, is the one met last in the registry;
\* without templates none is reported.
C24_TieBreakLastEncountered ==
    PlatformComputed =>
        IF CountedTemplates = {}
        THEN platform_metrics.most_popular_template = NoTemplate
        ELSE /\ platform_metrics.most_popular_template.name \in MostUsed
             /\ \A u \in MostUsed :
                   LastSeenAt(u) <= LastSeenAt(platform_metrics.most_popular_template.name)

\* C24 amended: of the templates with the largest current count, the one
\* met first in the registry is reported, with that count.
C24_TieBreakFirstEncountered ==
    PlatformComputed =>
        IF CountedTemplates = {}
        THEN platform_metrics.most_popular_template = NoTemplate
        ELSE /\ platform_metrics.most_popular_template.name \in MostUsed
             /\ platform_metrics.most_popular_template.count =
                    CurrentCount(platform_metrics.most_popular_template.name)
             /\ \A u \in MostUsed :
                   FirstSeenAt(platform_metrics.most_popular_template.name) <= FirstSeenAt(u)

\* two templates with one workspace each, "py" before "js" in the registry:
\* "py" is reported
C24_Witness ==
    /\ PlatformComputed
    /\ MostUsed = {"py", "js"}
    /\ FirstSeenAt("py") < FirstSeenAt("js")
    /\ platform_metrics.most_popular_template.name = "py"
    /\ platform_metrics.most_popular_template.count = 1

(***************************************************************************)
(* Properties of the hour totals of teams and templates                    *)
(***************************************************************************)

AccumulatedHours == [i \in DOMAIN agg_accumulated |->
                        Get(agg_accumulated[i], "total_workspace_hours", 0)]

RegistryHours == [i \in DOMAIN agg_registry |->
                     Get(agg_registry[i], "total_usage_hours", 0)]

\* the accumulated_usage records and the registry entries of a team
TeamRecordsIdx(team) ==
    {i \in DOMAIN agg_accumulated : RecordTeam(agg_accumulated[i]) = team}

TeamEntriesIdx(team) ==
    {i \in DOMAIN agg_registry : agg_registry[i].team_name = team}

\* the non-excluded accumulated_usage records and registry entries of a
\* template definition
TemplateRecordsIdx(template) ==
    {i \in DOMAIN agg_accumulated :
        /\ Get(agg_accumulated[i], "template_name", "") = template.name
        /\ RecordTeam(agg_accumulated[i]) \notin EXCLUDED_TEAMS}

TemplateEntriesIdx(template) ==
    {i \in DOMAIN agg_registry :
        /\ agg_registry[i].template_id = template.id
        /\ agg_registry[i].team_name \notin EXCLUDED_TEAMS}

\* the hours the rule gives, in tenths
RuleHours(records, entries) ==
    IF SumOver(records, AccumulatedHours) # 0
    THEN SumOver(records, AccumulatedHours)
    ELSE SumOver(entries, RegistryHours)

TeamsComputed ==
    agg_pc \in {"teams", "platform", "templates", "daily", "workspaces", "done", "failed"}

TemplatesComputed == agg_pc \in {"templates", "daily", "workspaces", "done", "failed"}

\* C25: every team and every template reports the rounding of the sum of
\* its accumulated_usage hours when that sum is not zero, and of the sum of
\* the hours of its registry entries when it is zero.
C25_AccumulatedPreferred ==
    /\ TeamsComputed =>
          \A i \in DOMAIN team_metrics :
              team_metrics[i].total_workspace_hours =
                  RoundHalfEven(RuleHours(TeamRecordsIdx(team_metrics[i].team_name),
                                          TeamEntriesIdx(team_metrics[i].team_name)), 10)
    /\ TemplatesComputed =>
          /\ Len(template_metrics) = Len(LatestTemplates)
          /\ \A i \in DOMAIN template_metrics :
                template_metrics[i].total_workspace_hours =
                    RoundHalfEven(RuleHours(TemplateRecordsIdx(LatestTemplates[i]),
                                            TemplateEntriesIdx(LatestTemplates[i])), 10)

\* team-a and the "py" template have registry entries summing to 4 hours
\* and one record: with an accumulated total of 2.5 hours they report 2
C25_Witness ==
    /\ TemplatesComputed
    /\ \E i \in DOMAIN team_metrics :
          /\ team_metrics[i].team_name = "team-a"
          /\ SumOver(TeamEntriesIdx("team-a"), RegistryHours) = 40
          /\ SumOver(TeamRecordsIdx("team-a"), AccumulatedHours) = 25
          /\ team_metrics[i].total_workspace_hours = 2
          /\ template_metrics[1].total_workspace_hours = 2

\* the same with an accumulated total of zero: they report the 4 hours of
\* the registry
C25_FallbackReached ==
    /\ TemplatesComputed
    /\ \E i \in DOMAIN team_metrics :
          /\ team_metrics[i].team_name = "team-a"
          /\ TeamRecordsIdx("team-a") # {}
          /\ SumOver(TeamEntriesIdx("team-a"), RegistryHours) = 40
          /\ SumOver(TeamRecordsIdx("team-a"), AccumulatedHours) = 0
          /\ team_metrics[i].total_workspace_hours = 4
          /\ template_metrics[1].total_workspace_hours = 4

(***************************************************************************)
(* Properties of days_since: timestamps that do not parse or lie ahead     *)
(***************************************************************************)

StatusComputed == act_status # "none"

\* C26: a timestamp that does not parse (the empty string or any other)
\* counts 9999 days and is stale; a timestamp later than now counts 0 days
\* and is active; the count is never negative.
C26_MalformedAndFutureTimestamps ==
    StatusComputed =>
        /\ act_last_used_at \in {NoTimestamp, NotIso} =>
              (act_days = UnparsableDays /\ act_status = "stale")
        /\ (act_last_used_at \notin {NoTimestamp, NotIso} /\ act_last_used_at > act_now) =>
              (act_days = 0 /\ act_status = "active")
        /\ act_days >= 0

\* a timestamp more than a day ahead of now was classified: 0 days, active
C26_Witness ==
    /\ StatusComputed
    /\ act_last_used_at > act_now + SecondsPerDay
    /\ act_days = 0
    /\ act_status = "active"

\* a non-empty timestamp that does not parse was classified: 9999, stale
C26_NotIsoReached ==
    /\ StatusComputed
    /\ act_last_used_at = NotIso
    /\ act_days = UnparsableDays
    /\ act_status = "stale"

(***************************************************************************)
(* Properties of the key-string fetch                                      *)
(***************************************************************************)

FetchEnded == fetch_pc = "returned" /\ fetch_attempts # <<>>

LastAttempt == fetch_attempts[Len(fetch_attempts)]

\* what holds of every fetch: at most 3 attempts, a 2-second wait after
\* each attempt but the last, success exactly at a key string, and a
\* failure result otherwise
FetchIsBounded ==
    /\ Len(fetch_attempts) <= max_retries
    /\ \A i \in DOMAIN fetch_waits : fetch_waits[i] = RetryWait
    /\ Len(fetch_waits) <= max_retries - 1
    /\ fetch_pc = "fetching" => Len(fetch_waits) = Len(fetch_attempts)
    /\ FetchEnded =>
          /\ Len(fetch_waits) = Len(fetch_attempts) - 1
          /\ fetch_result.success <=> LastAttempt = "key"
          /\ fetch_result.success => fetch_result.api_key # ""
          /\ ~fetch_result.success => fetch_result.error_message # ""

\* C27 as stated: every failed attempt, a timeout included, is retried
\* until 3 attempts have been made.
C27_EveryFailureRetried ==
    /\ FetchIsBounded
    /\ \A i \in 1..(Len(fetch_attempts) - 1) : fetch_attempts[i] # "key"
    /\ (FetchEnded /\ LastAttempt # "key") => Len(fetch_attempts) = max_retries

\* C27 amended: empty output and a command error are retried until 3
\* attempts have been made; a timeout ends the fetch at once with the
\* failure "Command timed out".
C27_TimeoutEndsFetch ==
    /\ FetchIsBounded
    /\ \A i \in 1..(Len(fetch_attempts) - 1) : fetch_attempts[i] \in {"empty", "error"}
    /\ (FetchEnded /\ LastAttempt \in {"empty", "error"}) =>
          Len(fetch_attempts) = max_retries
    /\ (FetchEnded /\ LastAttempt = "timeout") =>
          fetch_result = Failure("Command timed out")

\* retrieve_existing_key saw empty output, then a command error, then a
\* timeout: two waits, and the failure of the timeout
C27_Witness ==
    /\ fetch_pc = "returned"
    /\ fetch_caller = "retrieve_existing_key"
    /\ fetch_attempts = <<"empty", "error", "timeout">>
    /\ fetch_waits = <<RetryWait, RetryWait>>
    /\ fetch_result = Failure("Command timed out")

(***************************************************************************)
(* Properties of the usage accumulator: a workspace that is always listed  *)
(***************************************************************************)

\* C28: a key whose only workspace was listed by every run so far, with
\* hours that never went down, has as total_workspace_hours the hours the
\* last run reported for that workspace.
C28_Telescoping ==
    \A k \in DOMAIN accumulated_usage :
        \A w \in steady_workspaces :
            accumulated_usage[k].workspace_ids = {w} =>
                accumulated_usage[k].total_workspace_hours =
                    EntryOf(current_workspaces, w).total_usage_hours

\* three runs listed w1 as the only workspace of its key, with 0 hours in
\* the first run and 1 hour in the last: the key holds 1 hour
C28_Witness ==
    /\ clock = MaxRuns
    /\ "w1" \in steady_workspaces
    /\ accumulated_usage["u1_py"].workspace_ids = {"w1"}
    /\ accumulated_usage["u1_py"].first_seen = 1
    /\ max_hours_seen["w1"] = 1
    /\ EntryOf(current_workspaces, "w1").total_usage_hours = 1
    /\ accumulated_usage["u1_py"].total_workspace_hours = 1

(***************************************************************************)
(* Properties of the registry replay: the order of the snapshots           *)
(***************************************************************************)

DistinctTimestamps ==
    \A i \in 1..Len(snapshots), j \in 1..Len(snapshots) :
        i # j => snapshots[i].timestamp # snapshots[j].timestamp

\* the replayed snapshots in another order
Reordered(p) == [i \in 1..Len(snapshots) |-> snapshots[p[i]]]

\* the snapshot with the greatest timestamp among those that mention w
NewestMentioning(w) ==
    snapshots[CHOOSE i \in 1..Len(snapshots) :
                 /\ Mentions(snapshots[i], w)
                 /\ \A j \in 1..Len(snapshots) :
                       Mentions(snapshots[j], w) =>
                           snapshots[j].timestamp <= snapshots[i].timestamp]

\* the entry made of the newest observation of w alone
FromNewest(w) ==
    RegistryEntry(EmptyMap, ObservationOf(NewestMentioning(w), w),
                  NewestMentioning(w).timestamp)

WithoutTeam(entry) == [entry EXCEPT !.team_name = ""]

\* C29 as stated: snapshots with pairwise distinct timestamps give the same
\* registry in every order, each entry with every field, team_name
\* included, from the newest snapshot that mentions the workspace.
C29_OrderIndependent ==
    DistinctTimestamps =>
        \A p \in Permutations(1..Len(snapshots)) :
            /\ build_workspace_registry(Reordered(p)) = registry
            /\ \A w \in DOMAIN registry : registry[w] = FromNewest(w)

\* C29 amended: in every order the registry has the same workspace ids and
\* every field other than team_name is the newest observation's; team_name
\* is the newest observation's whenever that observation carries one.
C29_OrderIndependentExceptTeam ==
    DistinctTimestamps =>
        \A p \in Permutations(1..Len(snapshots)) :
            LET other == build_workspace_registry(Reordered(p))
            IN /\ DOMAIN other = DOMAIN registry
               /\ \A w \in DOMAIN other :
                     /\ WithoutTeam(other[w]) = WithoutTeam(FromNewest(w))
                     /\ Get(ObservationOf(NewestMentioning(w), w), "team_name", "") # ""
                           => other[w].team_name = FromNewest(w).team_name

\* the newer of two snapshots was replayed first and its observation of w1
\* has no team_name: the entry has the newer hours and no team, while the
\* other order gives it the older snapshot's team
C29_Witness ==
    /\ Len(snapshots) = 2
    /\ snapshots[1].timestamp > snapshots[2].timestamp
    /\ Mentions(snapshots[1], "w1") /\ Mentions(snapshots[2], "w1")
    /\ "team_name" \notin DOMAIN ObservationOf(snapshots[1], "w1")
    /\ registry["w1"].total_usage_hours = 2
    /\ registry["w1"].team_name = UNASSIGNED
    /\ build_workspace_registry(<<snapshots[2], snapshots[1]>>)["w1"].team_name = "team-a"

(***************************************************************************)
(* Properties of the platform status counts                                *)
(***************************************************************************)

\* both compute_platform_metrics and compute_workspace_metrics have run
StatusCountsComputed ==
    agg_pc \in {"workspaces", "done", "failed"}

\* the registry entries whose team is not an excluded one
NotExcludedCount ==
    Cardinality({i \in DOMAIN agg_registry :
                    agg_registry[i].team_name \notin EXCLUDED_TEAMS})

StatusCountSum ==
    platform_metrics.active_workspaces + platform_metrics.inactive_workspaces
        + platform_metrics.stale_workspaces

\* C30: the active, inactive and stale counts add up to the number of
\* registry entries whose team is not excluded, which is the number of rows
\* of compute_workspace_metrics and at most total_workspaces.
C30_StatusCountsPartition ==
    StatusCountsComputed =>
        /\ StatusCountSum = NotExcludedCount
        /\ Len(workspace_metrics) = NotExcludedCount
        /\ platform_metrics.total_workspaces >= NotExcludedCount

\* a stale workspace of team-a and a workspace of the facilitators: one
\* stale workspace counted, one row, two workspaces in total
C30_Witness ==
    /\ StatusCountsComputed
    /\ Len(agg_registry) = 2
    /\ agg_registry[2].team_name = "facilitators"
    /\ platform_metrics.stale_workspaces = 1
    /\ platform_metrics.active_workspaces = 0
    /\ platform_metrics.inactive_workspaces = 0
    /\ Len(workspace_metrics) = 1
    /\ platform_metrics.total_workspaces >= 2

====
